---------------------------- MODULE Spec2Model ----------------------------
(***************************************************************************)
(* Silver -> Gold pipeline of the threat-intelligence warehouse:           *)
(*   stream/transform/transformation_to_gold_m.py  (transform)             *)
(*   stream/load/load_gold_layer_m.py              (append-only loader)    *)
(*   batch/load/load_silver_layer_m.py             (silver loader)         *)
(*   stream/extract/scrape_live_cvefeed_bronze_m.py (steps 6-8 of the run) *)
(*                                                                         *)
(* Text values (vendor, product, source names, vectors) are tuples of      *)
(* symbols so that strip / lower / slicing are computed, not assumed.      *)
(* A table is the sequence of its rows in insertion order.                 *)
(***************************************************************************)
EXTENDS Integers, Sequences, FiniteSets, TLC

(***************************************************************************)
(* Bounds of the model                                                     *)
(***************************************************************************)
MaxRuns == 2

MaxFaults == 1

\* largest page_size (batch_size) a bronze load is called with
MaxPage == 2

(***************************************************************************)
(* Program constants                                                       *)
(***************************************************************************)
SourceMaxLen == 100

(***************************************************************************)
(* Text helpers                                                            *)
(***************************************************************************)
NBSP == "nbsp"

SPACE == " "

NaT == 0

Take(s, n) == IF Len(s) <= n THEN s ELSE SubSeq(s, 1, n)

ReplaceNbsp(s) == [i \in DOMAIN s |-> IF s[i] = NBSP THEN SPACE ELSE s[i]]

IsWhite(c) == c \in {SPACE, NBSP}

RECURSIVE LStrip(_)
LStrip(s) == IF s # <<>> /\ IsWhite(Head(s)) THEN LStrip(Tail(s)) ELSE s

RECURSIVE RStrip(_)
RStrip(s) ==
    IF s # <<>> /\ IsWhite(s[Len(s)]) THEN RStrip(SubSeq(s, 1, Len(s) - 1)) ELSE s

Strip(s) == RStrip(LStrip(s))

LowerChar(c) ==
    CASE c = "A" -> "a"
      [] c = "B" -> "b"
      [] c = "W" -> "w"
      [] c = "G" -> "g"
      [] OTHER -> c

Lower(s) == [i \in DOMAIN s |-> LowerChar(s[i])]

\* _norm_text(s, maxlen): missing -> "", NBSP -> space, strip, optional slice
_norm_text(s, maxlen) ==
    LET val == Strip(ReplaceNbsp(s))
    IN  IF maxlen > 0 THEN Take(val, maxlen) ELSE val

\* code points of the symbols that occur in source names (Python sorts by them)
Code(c) ==
    CASE c = SPACE -> 32
      [] c = "@" -> 64
      [] c = "c" -> 99
      [] c = "n" -> 110
      [] c = "u" -> 117
      [] c = NBSP -> 160
      [] OTHER -> 200

RECURSIVE LexLess(_, _)
LexLess(s, t) ==
    IF s = <<>> THEN t # <<>>
    ELSE IF t = <<>> THEN FALSE
    ELSE IF Code(Head(s)) # Code(Head(t)) THEN Code(Head(s)) < Code(Head(t))
    ELSE LexLess(Tail(s), Tail(t))

RECURSIVE sorted(_)
sorted(S) ==
    IF S = {} THEN <<>>
    ELSE LET m == CHOOSE x \in S : \A y \in S \ {x} : LexLess(x, y)
         IN  <<m>> \o sorted(S \ {m})

(***************************************************************************)
(* Sequence helpers (pandas frame operations)                              *)
(***************************************************************************)
Range(s) == {s[i] : i \in DOMAIN s}

IsPrefix(s, t) == Len(s) <= Len(t) /\ SubSeq(t, 1, Len(s)) = s

\* DataFrame.drop_duplicates(): keep the first occurrence of every row
drop_duplicates_keepall(s) == s

RECURSIVE drop_duplicates(_)
drop_duplicates(s) ==
    IF s = <<>> THEN <<>>
    ELSE LET init == SubSeq(s, 1, Len(s) - 1)
             last == s[Len(s)]
         IN  IF last \in Range(init) THEN drop_duplicates(init)
             ELSE Append(drop_duplicates(init), last)

(***************************************************************************)
(* Input universe: rows of the cleaned (silver) frame.  cve_id is the      *)
(* number of the CVE (all identifiers are shorter than the 20 characters   *)
(* kept by cve_id[:20]); dates are day numbers, NaT is the missing date.    *)
(***************************************************************************)
AcmeCorp == <<"A", "c", "m", "e">>

acme_corp == <<"a", "c", "m", "e">>

Beta == <<"B", "e", "t", "a">>

Widget == <<"W", "i", "d">>

Gadget == <<"G", "a", "d">>

nvd == <<"n", "v", "d", "@">>

cna == <<"c", "n", "a", "@">>

cna_padded == <<SPACE, "c", "n", "a", "@", NBSP>>

unknown == <<"u", "n", "k">>

VecA == <<"AV:N", "/", "AC:L">>

VecB == <<"AV:L", "/", "Au:S">>

VecBlank == <<SPACE>>

Entry(ver, src, vec, sc) == [version |-> ver, source |-> src, vector |-> vec, score |-> sc]

Prod(v, p) == [vendor |-> v, product |-> p]

SilverRow(id, d, sc, pr) ==
    [cve_id |-> id, published_date |-> d, cvss_scores |-> sc, affected_products |-> pr]

RowA == SilverRow(1, 1, <<Entry("CVSS 3.1", nvd, VecA, 9)>>, <<Prod(AcmeCorp, Widget)>>)

RowB ==
    SilverRow(2, 2,
              <<Entry("CVSS 2.0", <<>>, VecB, 5), Entry("CVSS 3.0", cna, VecA, 8),
                Entry("CVSS 3.0", cna_padded, VecA, 7)>>,
              <<Prod(acme_corp, Widget), Prod(acme_corp, Gadget), Prod(AcmeCorp, Widget)>>)

RowC ==
    SilverRow(3, 1,
              <<Entry("CVSS 3.1", nvd, VecBlank, 9), Entry("CVSS 9.9", nvd, VecA, 9),
                Entry("CVSS 4.0", nvd, VecA, 6)>>,
              <<Prod(Beta, Gadget), Prod(Beta, <<NBSP>>), Prod(acme_corp, Widget)>>)

Rows == {RowA, RowB, RowC}

\* frames of one or two rows with distinct cve_id (clean_silver_data drops
\* duplicate cve_id before the frame reaches the loaders)
Batches ==
    {<<r>> : r \in Rows} \cup
    {b \in Rows \X Rows : b[1].cve_id # b[2].cve_id}

(***************************************************************************)
(* transformation_to_gold_m.py                                             *)
(***************************************************************************)
UtcNow == 3

None == "None"

get_version_info(version_str) ==
    CASE version_str = "CVSS 2.0" -> <<"v2", "CVSS 2.0">>
      [] version_str = "CVSS 3.0" -> <<"v3", "CVSS 3.0">>
      [] version_str = "CVSS 3.1" -> <<"v3", "CVSS 3.1">>
      [] version_str = "CVSS 4.0" -> <<"v4", "CVSS 4.0">>
      [] OTHER -> <<None, None>>

\* ids of the frame in groupby order (sorted), each once
RECURSIVE SortedIds(_)
SortedIds(S) ==
    IF S = {} THEN <<>>
    ELSE LET m == CHOOSE x \in S : \A y \in S : x <= y
         IN  <<m>> \o SortedIds(S \ {m})

FirstRowOf(df, id) == df[CHOOSE i \in DOMAIN df : df[i].cve_id = id /\ \A j \in 1..(i - 1) : df[j].cve_id # id]

create_dim_cve(df) ==
    LET ids == SortedIds({df[i].cve_id : i \in DOMAIN df})
    IN  [k \in DOMAIN ids |->
            LET r == FirstRowOf(df, ids[k])
            IN  [cve_id |-> r.cve_id,
                 published_date |-> IF r.published_date = NaT THEN UtcNow ELSE r.published_date]]

FactRecord_nochecks(cve_id, score_entry) ==
    <<[vkey |-> "v3",
       rec |-> [cve_id |-> cve_id, cvss_source |-> score_entry.source,
                cvss_version |-> score_entry.version, cvss_score |-> score_entry.score,
                cvss_vector |-> _norm_text(score_entry.vector, 0)]]>>

\* the records (none or one) appended to rec_v2 / rec_v3 / rec_v4 for one score entry
FactRecord(cve_id, score_entry) ==
    LET vi == get_version_info(score_entry.version)
        src == _norm_text(score_entry.source, SourceMaxLen)
        source == IF src = <<>> THEN unknown ELSE src
        vector == _norm_text(score_entry.vector, 0)
    IN  IF vi[1] = None \/ vector = <<>> THEN <<>>
        ELSE <<[vkey |-> vi[1],
                rec |-> IF vi[1] = "v3"
                        THEN [cve_id |-> cve_id, cvss_source |-> source, cvss_version |-> vi[2],
                              cvss_score |-> score_entry.score, cvss_vector |-> vector]
                        ELSE [cve_id |-> cve_id, cvss_source |-> source,
                              cvss_score |-> score_entry.score, cvss_vector |-> vector]]>>

RECURSIVE FactsOfEntries(_, _)
FactsOfEntries(cve_id, scores) ==
    IF scores = <<>> THEN <<>>
    ELSE FactRecord(cve_id, Head(scores)) \o FactsOfEntries(cve_id, Tail(scores))

RECURSIVE FactsOfRows(_)
FactsOfRows(df) ==
    IF df = <<>> THEN <<>>
    ELSE FactsOfEntries(Head(df).cve_id, Head(df).cvss_scores) \o FactsOfRows(Tail(df))

RECURSIVE RecsOfVersion(_, _)
RecsOfVersion(fs, vkey) ==
    IF fs = <<>> THEN <<>>
    ELSE (IF Head(fs).vkey = vkey THEN <<Head(fs).rec>> ELSE <<>>) \o RecsOfVersion(Tail(fs), vkey)

create_cvss_facts(df) ==
    LET fs == FactsOfRows(df)
    IN  [cvss_v2 |-> RecsOfVersion(fs, "v2"),
         cvss_v3 |-> RecsOfVersion(fs, "v3"),
         cvss_v4 |-> RecsOfVersion(fs, "v4")]

\* one (cve, vendor, product) occurrence per usable affected_products entry
RECURSIVE OccOfProducts(_, _)
OccOfProducts(row, products) ==
    IF products = <<>> THEN <<>>
    ELSE LET vendor == _norm_text(Head(products).vendor, 0)
             product == _norm_text(Head(products).product, 0)
         IN  (IF vendor = <<>> \/ product = <<>> THEN <<>>
              ELSE <<[cve_id |-> row.cve_id, published_date |-> row.published_date,
                      vendor |-> vendor, product |-> product,
                      vkey |-> Lower(vendor), pkey |-> Lower(product)]>>)
             \o OccOfProducts(row, Tail(products))

RECURSIVE Occurrences(_)
Occurrences(df) ==
    IF df = <<>> THEN <<>>
    ELSE OccOfProducts(Head(df), Head(df).affected_products) \o Occurrences(Tail(df))

\* the date comparisons of pandas: any comparison with NaT is False
DateLess(a, b) == a # NaT /\ b # NaT /\ a < b

\* first_cve_date / last_cve_date after one more occurrence (lines 319-323, 338-342)
UpdFirst(cur, published_date) ==
    IF published_date # NaT /\ DateLess(published_date, cur) THEN published_date ELSE cur

UpdLast(cur, published_date) ==
    IF published_date # NaT /\ DateLess(cur, published_date) THEN published_date ELSE cur

IndexOfKey(dict, k) ==
    IF \E i \in DOMAIN dict : dict[i].key = k
    THEN CHOOSE i \in DOMAIN dict : dict[i].key = k
    ELSE 0

\* vendors_dict after the occurrences occ, in insertion order
RECURSIVE vendors_dict(_)
vendors_dict(occ) ==
    IF occ = <<>> THEN <<>>
    ELSE LET d == vendors_dict(SubSeq(occ, 1, Len(occ) - 1))
             o == occ[Len(occ)]
             i == IndexOfKey(d, o.vkey)
         IN  IF i = 0
             THEN Append(d, [key |-> o.vkey, vendor_name |-> o.vendor,
                             total_products |-> {o.pkey}, total_cves |-> 1,
                             first_cve_date |-> o.published_date,
                             last_cve_date |-> o.published_date])
             ELSE [d EXCEPT ![i] =
                     [@ EXCEPT !.total_cves = @ + 1,
                               !.total_products = @ \cup {o.pkey},
                               !.first_cve_date = UpdFirst(@, o.published_date),
                               !.last_cve_date = UpdLast(@, o.published_date)]]

\* products_dict after the occurrences occ, in insertion order
RECURSIVE products_dict(_)
products_dict(occ) ==
    IF occ = <<>> THEN <<>>
    ELSE LET d == products_dict(SubSeq(occ, 1, Len(occ) - 1))
             o == occ[Len(occ)]
             i == IndexOfKey(d, <<o.vkey, o.pkey>>)
         IN  IF i = 0
             THEN Append(d, [key |-> <<o.vkey, o.pkey>>, vendor_lower |-> o.vkey,
                             product_name |-> o.product, total_cves |-> 1,
                             first_cve_date |-> o.published_date,
                             last_cve_date |-> o.published_date])
             ELSE [d EXCEPT ![i] =
                     [@ EXCEPT !.total_cves = @ + 1,
                               !.first_cve_date = UpdFirst(@, o.published_date),
                               !.last_cve_date = UpdLast(@, o.published_date)]]

\* vendor_id / product_id: position in the dict (enumerate, start=1)
build_dim_vendor(vd) ==
    [i \in DOMAIN vd |->
        [vendor_id |-> i, vendor_name |-> vd[i].vendor_name,
         total_products |-> Cardinality(vd[i].total_products),
         total_cves |-> vd[i].total_cves,
         first_cve_date |-> vd[i].first_cve_date, last_cve_date |-> vd[i].last_cve_date]]

\* vendor_lookup.get(k): lower-cased vendor_name -> vendor_id, None when absent
vendor_lookup(dv, k) ==
    IF \E i \in DOMAIN dv : Lower(dv[i].vendor_name) = k
    THEN dv[CHOOSE i \in DOMAIN dv :
                Lower(dv[i].vendor_name) = k /\
                \A j \in DOMAIN dv : Lower(dv[j].vendor_name) = k => j <= i].vendor_id
    ELSE NaT

build_dim_products(pd, dv) ==
    [i \in DOMAIN pd |->
        [product_id |-> i, vendor_id |-> vendor_lookup(dv, pd[i].vendor_lower),
         product_name |-> pd[i].product_name, total_cves |-> pd[i].total_cves,
         first_cve_date |-> pd[i].first_cve_date, last_cve_date |-> pd[i].last_cve_date]]

product_lookup_absent(dp, vendor_id, product_lower) == NaT

\* product_lookup.get((vendor_id, product_lower)), None when absent
product_lookup(dp, vendor_id, product_lower) ==
    IF \E i \in DOMAIN dp : dp[i].vendor_id = vendor_id /\ Lower(dp[i].product_name) = product_lower
    THEN dp[CHOOSE i \in DOMAIN dp :
                dp[i].vendor_id = vendor_id /\ Lower(dp[i].product_name) = product_lower /\
                \A j \in DOMAIN dp :
                    (dp[j].vendor_id = vendor_id /\ Lower(dp[j].product_name) = product_lower)
                        => j <= i].product_id
    ELSE NaT

RECURSIVE BridgeRows(_, _, _)
BridgeRows(occ, dv, dp) ==
    IF occ = <<>> THEN <<>>
    ELSE LET vid == vendor_lookup(dv, Head(occ).vkey)
             pid == product_lookup(dp, vid, Head(occ).pkey)
         IN  (IF pid = NaT THEN <<>> ELSE <<[cve_id |-> Head(occ).cve_id, product_id |-> pid]>>)
             \o BridgeRows(Tail(occ), dv, dp)

create_vendors_products_and_bridge(df) ==
    LET occ == Occurrences(df)
        dv == build_dim_vendor(vendors_dict(occ))
        dp == build_dim_products(products_dict(occ), dv)
    IN  [dim_vendor |-> dv, dim_products |-> dp,
         bridge_cve_products |-> drop_duplicates(BridgeRows(occ, dv, dp))]

transform_silver_to_gold(df_silver) ==
    LET vpb == create_vendors_products_and_bridge(df_silver)
        facts == create_cvss_facts(df_silver)
    IN  [dim_cve |-> create_dim_cve(df_silver),
         dim_vendor |-> vpb.dim_vendor,
         dim_products |-> vpb.dim_products,
         cvss_v2 |-> facts.cvss_v2,
         cvss_v3 |-> facts.cvss_v3,
         cvss_v4 |-> facts.cvss_v4,
         bridge_cve_products |-> vpb.bridge_cve_products]

(***************************************************************************)
(* Storage.  DataFrame.to_sql(if_exists='append') appends the frame in one *)
(* transaction: either every row is added or the statement is rejected and *)
(* none is.  Which statements the database rejects is not decided by the   *)
(* loaders, so it is an input of the write.                                *)
(***************************************************************************)
FactTables == {"cvss_v2", "cvss_v3", "cvss_v4"}

DimTables == {"dim_cve", "dim_vendor", "dim_products"}

GoldTables == {"dim_cvss_source", "bridge_cve_products"} \cup DimTables \cup FactTables

\* the objects verify_gold_schema looks for, in the order it looks for them
GoldObjects ==
    <<"schema", "dim_cve", "dim_cvss_source", "dim_vendor", "dim_products",
      "cvss_v2", "cvss_v3", "cvss_v4", "bridge_cve_products">>

to_sql_replace(rows, df) == df

to_sql_onconflict(rows, df) == rows \o SelectSeq(df, LAMBDA r : r \notin Range(rows))

to_sql(rows, df) == rows \o df

EffectiveIfExists_asrequested(requested) == requested

\* the if_exists the loaders hand to to_sql: the literal 'append', whatever was requested
EffectiveIfExists(requested) == "append"

\* DataFrame.to_sql(..., if_exists=...): 'replace' drops the table's rows first
to_sql_if_exists(rows, df, requested) ==
    IF EffectiveIfExists(requested) = "replace" THEN df ELSE to_sql(rows, df)

EmptyDb ==
    [cve_details |-> <<>>, cve_cleaned |-> <<>>, dim_cvss_source |-> <<>>, dim_cve |-> <<>>, dim_vendor |-> <<>>,
     dim_products |-> <<>>, cvss_v2 |-> <<>>, cvss_v3 |-> <<>>, cvss_v4 |-> <<>>,
     bridge_cve_products |-> <<>>]

(***************************************************************************)
(* load_silver_layer_m.py                                                  *)
(***************************************************************************)
\* an empty list is stored as NULL (the one-element tuple <<None>>)
safe_json_dumps(x) == IF x = <<>> THEN <<None>> ELSE x

CveIdsOf(rows) == {rows[i].cve_id : i \in DOMAIN rows}

RECURSIVE DropDuplicateCve(_)
DropDuplicateCve(df) ==
    IF df = <<>> THEN <<>>
    ELSE LET init == SubSeq(df, 1, Len(df) - 1)
             last == df[Len(df)]
         IN  IF \E i \in DOMAIN init : init[i].cve_id = last.cve_id
             THEN DropDuplicateCve(init)
             ELSE Append(DropDuplicateCve(init), last)

\* a cve_id that is missing or blank
NoCveId == 0

prepare_silver_dataframe(df) ==
    DropDuplicateCve(
        SelectSeq([i \in DOMAIN df |->
                      [df[i] EXCEPT !.cvss_scores = safe_json_dumps(@),
                                    !.affected_products = safe_json_dumps(@)]],
                  LAMBDA r : r.cve_id # NoCveId))

SilverToInsert_nofilter(df, rows) == prepare_silver_dataframe(df)

\* the frame load_to_silver_table hands to to_sql
SilverToInsert(df, rows) ==
    LET df_prepared == prepare_silver_dataframe(df)
        existing_cves == {rows[i].cve_id : i \in DOMAIN rows} \cap
                         {df_prepared[i].cve_id : i \in DOMAIN df_prepared}
    IN  SelectSeq(df_prepared, LAMBDA r : r.cve_id \notin existing_cves)

(***************************************************************************)
(* load_gold_layer_m.py                                                    *)
(***************************************************************************)
FirstMissing_schemaonly(cat) == IF "schema" \notin cat THEN "schema" ELSE None

\* verify_gold_schema: the first missing object, None when all are there
FirstMissing(cat) ==
    IF \E i \in DOMAIN GoldObjects : GoldObjects[i] \notin cat
    THEN GoldObjects[CHOOSE i \in DOMAIN GoldObjects :
                        GoldObjects[i] \notin cat /\
                        \A j \in 1..(i - 1) : GoldObjects[j] \in cat]
    ELSE None

CollectSources_v3only(tables) ==
    {_norm_text(tables.cvss_v3[i].cvss_source, SourceMaxLen) : i \in DOMAIN tables.cvss_v3}

\* load_dim_cvss_source: the source names collected from the three fact frames
CollectSources(tables) ==
    UNION {{_norm_text(tables[t][i].cvss_source, SourceMaxLen) : i \in DOMAIN tables[t]}
              : t \in FactTables}

NewSources(tables, rows) ==
    LET existing == {rows[i].source_name : i \in DOMAIN rows}
    IN  sorted({x \in CollectSources(tables) : x # <<>> /\ x \notin existing})

\* source_id is issued by the database (serial column), increasing
SerialSourceRows(rows, names) ==
    [i \in DOMAIN names |-> [source_id |-> Len(rows) + i, source_name |-> names[i]]]

\* mapping = {source_name: source_id} read back from the table
BuildMapping(rows) ==
    [n \in {rows[i].source_name : i \in DOMAIN rows} |->
        rows[CHOOSE i \in DOMAIN rows :
                rows[i].source_name = n /\
                \A j \in DOMAIN rows : rows[j].source_name = n => j <= i].source_id]

\* primary key of a dimension row (primary_key_col)
PrimaryKey(table_name, r) ==
    CASE table_name = "dim_cve" -> r.cve_id
      [] table_name = "dim_vendor" -> r.vendor_id
      [] table_name = "dim_products" -> r.product_id

DimensionToInsert_nofilter(df, table_name, rows) == df

\* load_dimension: df_to_insert = df[~df[pk].isin(existing_ids)]
DimensionToInsert(df, table_name, rows) ==
    LET existing_ids == {PrimaryKey(table_name, rows[i]) : i \in DOMAIN rows} \cap
                        {PrimaryKey(table_name, df[i]) : i \in DOMAIN df}
    IN  SelectSeq(df, LAMBDA r : PrimaryKey(table_name, r) \notin existing_ids)

\* load_fact_cvss, lines 316-345: guards, source -> source_id, unmapped rows dropped
MapSources(df, mapping) ==
    LET nonempty == SelectSeq(df, LAMBDA r : Len(r.cvss_vector) > 0)
        normed == [i \in DOMAIN nonempty |->
                     [nonempty[i] EXCEPT !.cvss_source = _norm_text(@, SourceMaxLen)]]
        mapped == SelectSeq(normed, LAMBDA r : r.cvss_source \in DOMAIN mapping)
    IN  [i \in DOMAIN mapped |->
            IF "cvss_version" \in DOMAIN mapped[i]
            THEN [cve_id |-> mapped[i].cve_id, source_id |-> mapping[mapped[i].cvss_source],
                  cvss_version |-> mapped[i].cvss_version,
                  cvss_score |-> mapped[i].cvss_score, cvss_vector |-> mapped[i].cvss_vector]
            ELSE [cve_id |-> mapped[i].cve_id, source_id |-> mapping[mapped[i].cvss_source],
                  cvss_score |-> mapped[i].cvss_score, cvss_vector |-> mapped[i].cvss_vector]]

\* cve_id || '|' || source_id || '|' || cvss_vector
FactKey(r) == <<r.cve_id, r.source_id, r.cvss_vector>>

FactToInsert_nofilter(df, mapping, rows) == MapSources(df, mapping)

\* load_fact_cvss, lines 347-370
FactToInsert(df, mapping, rows) ==
    LET existing_keys == {FactKey(rows[i]) : i \in DOMAIN rows}
    IN  SelectSeq(MapSources(df, mapping), LAMBDA r : FactKey(r) \notin existing_keys)

\* cve_id || '|' || product_id
BridgeKey(r) == <<r.cve_id, r.product_id>>

BridgeToInsert_nofilter(df, rows) ==
    drop_duplicates(
        [i \in DOMAIN df |-> [cve_id |-> df[i].cve_id, product_id |-> df[i].product_id]])

\* load_bridge, lines 428-454
BridgeToInsert(df, rows) ==
    LET clean == drop_duplicates(
                    [i \in DOMAIN df |-> [cve_id |-> df[i].cve_id, product_id |-> df[i].product_id]])
        existing_keys == {BridgeKey(rows[i]) : i \in DOMAIN rows}
    IN  SelectSeq(clean, LAMBDA r : BridgeKey(r) \notin existing_keys)

(***************************************************************************)
(* State                                                                   *)
(***************************************************************************)
VARIABLES
    db,              \* the persisted tables: silver.cve_cleaned and the gold tables
    catalog,         \* the gold objects (schema, tables) that exist in the database
    pc,              \* position of the pipeline run
    silver_df,       \* the cleaned frame of the run (the input batch)
    gold_tables,     \* result of transform_silver_to_gold
    source_mapping,  \* result of load_dim_cvss_source
    stats,           \* load_gold_layer's stats: table -> rows inserted
    log,             \* what the loaders logged in this run, per table, in order
    result,          \* pipeline_stats['success'] / return value of load_gold_layer
    history,         \* the batches of the finished runs and how each ended
    faults,          \* number of rejections the storage has produced so far
    if_exists,       \* the if_exists argument the loaders are called with
    runs,            \* runs that share the database: each one's position and locals
    call,            \* arguments of a function called on its own
    ret              \* what that call returned

\* call and ret before any function was called on its own
NoCall == [fn |-> None, raised |-> FALSE]

vars ==
    <<db, catalog, pc, silver_df, gold_tables, source_mapping, stats, log, result,
      history, faults, if_exists, runs, call, ret>>

\* what a pipeline run (scrape_and_load_with_pipeline) never touches
others == <<if_exists, runs, call, ret>>

\* the order of the load calls in load_gold_layer, lines 550-613
StepOrder_factsfirst ==
    <<"source", "dim_cve", "dim_vendor", "cvss_v2", "cvss_v3", "cvss_v4", "dim_products",
      "bridge_cve_products", "finish">>

StepOrder ==
    <<"source", "dim_cve", "dim_vendor", "dim_products", "cvss_v2", "cvss_v3", "cvss_v4",
      "bridge_cve_products", "finish">>

NextStep(step) ==
    StepOrder[(CHOOSE i \in DOMAIN StepOrder : StepOrder[i] = step) + 1]

StatsKey(table_name) == IF table_name = "bridge_cve_products" THEN "bridge" ELSE table_name

Logged(table_name, what) == [table |-> table_name, event |-> what]

\* logger.warning(... 'replace' requested but IGNORED) at the head of a loader
Warned(lg, layer) ==
    IF if_exists = "replace" THEN Append(lg, Logged(layer, "warning")) ELSE lg

NoTables ==
    [dim_cve |-> <<>>, dim_vendor |-> <<>>, dim_products |-> <<>>, cvss_v2 |-> <<>>,
     cvss_v3 |-> <<>>, cvss_v4 |-> <<>>, bridge_cve_products |-> <<>>]

Init ==
    /\ db = EmptyDb
    /\ catalog = Range(GoldObjects)
    /\ pc = "idle"
    /\ silver_df = <<>>
    /\ gold_tables = NoTables
    /\ source_mapping = <<>>
    /\ stats = <<>>
    /\ log = <<>>
    /\ result = None
    /\ history = <<>>
    /\ faults = 0
    /\ if_exists = "append"
    /\ runs = <<>>
    /\ call = NoCall
    /\ ret = NoCall

\* the run just finished, as remembered by history: its batch, and whether it went
\* through every load without a rejected write or a missing object
Finished ==
    [batch |-> silver_df,
     clean |-> result = TRUE /\ \A i \in DOMAIN log : log[i].event \notin {"rejected", "missing"}]

\* scrape_and_load_with_pipeline reaches step 6 with a new cleaned frame; the state of
\* the database catalog is whatever the operator left
StartRun(b, missing) ==
    /\ pc \in {"idle", "done"}
    /\ Len(history) + (IF pc = "done" THEN 1 ELSE 0) < MaxRuns
    /\ missing # {} => faults < MaxFaults
    /\ faults' = IF missing # {} THEN faults + 1 ELSE faults
    /\ catalog' = Range(GoldObjects) \ missing
    /\ history' = IF pc = "done" THEN Append(history, Finished) ELSE history
    /\ silver_df' = b
    /\ gold_tables' = NoTables
    /\ source_mapping' = <<>>
    /\ stats' = <<>>
    /\ log' = <<>>
    /\ result' = None
    /\ pc' = "silver"
    /\ UNCHANGED <<db, others>>

LoadSilver_ignorefailure(reject) ==
    /\ pc = "silver"
    /\ IF reject
       THEN /\ faults < MaxFaults
            /\ faults' = faults + 1
            /\ log' = Append(Warned(log, "silver"), Logged("cve_cleaned", "rejected"))
            /\ UNCHANGED db
       ELSE /\ db' = [db EXCEPT !.cve_cleaned =
                         to_sql_if_exists(@, SilverToInsert(silver_df, db.cve_cleaned), if_exists)]
            /\ log' = Append(Warned(log, "silver"), Logged("cve_cleaned", "inserted"))
            /\ UNCHANGED faults
    /\ pc' = "transform"
    /\ UNCHANGED <<catalog, silver_df, gold_tables, source_mapping, stats, history, others,
                   result>>

\* step 6: load_silver_layer -> load_to_silver_table; an exception makes it return False
\* and the run returns
LoadSilver(reject) ==
    /\ pc = "silver"
    /\ LET df_to_insert == SilverToInsert(silver_df, db.cve_cleaned)
       IN  IF df_to_insert = <<>>
           THEN /\ ~reject
                /\ log' = Append(Warned(log, "silver"), Logged("cve_cleaned", "skipped"))
                /\ pc' = "transform"
                /\ UNCHANGED <<db, result, faults>>
           ELSE IF reject
           THEN /\ faults < MaxFaults
                /\ faults' = faults + 1
                /\ log' = Append(Warned(log, "silver"), Logged("cve_cleaned", "rejected"))
                /\ result' = FALSE
                /\ pc' = "done"
                /\ UNCHANGED db
           ELSE /\ db' = [db EXCEPT !.cve_cleaned = to_sql_if_exists(@, df_to_insert, if_exists)]
                /\ log' = Append(Warned(log, "silver"), Logged("cve_cleaned", "inserted"))
                /\ pc' = "transform"
                /\ UNCHANGED <<result, faults>>
    /\ UNCHANGED <<catalog, silver_df, gold_tables, source_mapping, stats, history, others>>

\* step 7: transform_silver_to_gold(silver_df)
Transform ==
    /\ pc = "transform"
    /\ gold_tables' = transform_silver_to_gold(silver_df)
    /\ pc' = "verify"
    /\ UNCHANGED <<db, catalog, silver_df, source_mapping, stats, log, result, history, faults,
                   others>>

\* step 8, load_gold_layer lines 531-545: verify_gold_schema
VerifySchema ==
    /\ pc = "verify"
    /\ LET missing == FirstMissing(catalog)
       IN  IF missing # None
           THEN /\ log' = Append(Warned(log, "gold"), Logged(missing, "missing"))
                /\ result' = FALSE
                /\ pc' = "done"
           ELSE /\ pc' = "source"
                /\ log' = Warned(log, "gold")
                /\ UNCHANGED result
    /\ UNCHANGED <<db, catalog, silver_df, gold_tables, source_mapping, stats, history, faults,
                   others>>

\* load_dim_cvss_source; its to_sql is not guarded, a rejection ends load_gold_layer
\* in the except branch (return False)
LoadDimCvssSource(reject) ==
    /\ pc = "source"
    /\ IF CollectSources(gold_tables) = {}
       THEN /\ ~reject
            /\ source_mapping' = <<>>
            /\ log' = Append(log, Logged("dim_cvss_source", "empty"))
            /\ pc' = NextStep(pc)
            /\ UNCHANGED <<db, result, faults>>
       ELSE LET new_sources == NewSources(gold_tables, db.dim_cvss_source)
            IN  IF new_sources = <<>>
                THEN /\ ~reject
                     /\ source_mapping' = BuildMapping(db.dim_cvss_source)
                     /\ log' = Append(log, Logged("dim_cvss_source", "skipped"))
                     /\ pc' = NextStep(pc)
                     /\ UNCHANGED <<db, result, faults>>
                ELSE IF reject
                THEN /\ faults < MaxFaults
                     /\ faults' = faults + 1
                     /\ log' = Append(log, Logged("dim_cvss_source", "rejected"))
                     /\ result' = FALSE
                     /\ pc' = "done"
                     /\ UNCHANGED <<db, source_mapping>>
                ELSE LET rows == to_sql_if_exists(db.dim_cvss_source,
                                        SerialSourceRows(db.dim_cvss_source, new_sources),
                                        if_exists)
                     IN  /\ db' = [db EXCEPT !.dim_cvss_source = rows]
                         /\ source_mapping' = BuildMapping(rows)
                         /\ log' = Append(log, Logged("dim_cvss_source", "inserted"))
                         /\ pc' = NextStep(pc)
                         /\ UNCHANGED <<result, faults>>
    /\ UNCHANGED <<catalog, silver_df, gold_tables, stats, history, others>>

\* the common tail of load_dimension, load_fact_cvss and load_bridge: nothing to insert
\* returns 0; otherwise to_sql, and IntegrityError / SQLAlchemyError is logged and
\* answered with 0
WriteGold(table_name, df, df_to_insert, reject) ==
    /\ IF df = <<>>
       THEN /\ ~reject
            /\ stats' = (StatsKey(table_name) :> 0) @@ stats
            /\ log' = Append(log, Logged(table_name, "empty"))
            /\ UNCHANGED <<db, faults>>
       ELSE IF df_to_insert = <<>>
       THEN /\ ~reject
            /\ stats' = (StatsKey(table_name) :> 0) @@ stats
            /\ log' = Append(log, Logged(table_name, "skipped"))
            /\ UNCHANGED <<db, faults>>
       ELSE IF reject
       THEN /\ faults < MaxFaults
            /\ faults' = faults + 1
            /\ stats' = (StatsKey(table_name) :> 0) @@ stats
            /\ log' = Append(log, Logged(table_name, "rejected"))
            /\ UNCHANGED db
       ELSE /\ db' = [db EXCEPT ![table_name] = to_sql_if_exists(@, df_to_insert, if_exists)]
            /\ stats' = (StatsKey(table_name) :> Len(df_to_insert)) @@ stats
            /\ log' = Append(log, Logged(table_name, "inserted"))
            /\ UNCHANGED faults
    /\ pc' = NextStep(pc)
    /\ UNCHANGED <<catalog, silver_df, gold_tables, source_mapping, result, history, others>>

LoadDimension(reject) ==
    /\ pc \in DimTables
    /\ WriteGold(pc, gold_tables[pc], DimensionToInsert(gold_tables[pc], pc, db[pc]), reject)

LoadFactCvss(reject) ==
    /\ pc \in FactTables
    /\ WriteGold(pc, gold_tables[pc], FactToInsert(gold_tables[pc], source_mapping, db[pc]),
                 reject)

LoadBridge(reject) ==
    /\ pc = "bridge_cve_products"
    /\ WriteGold(pc, gold_tables[pc], BridgeToInsert(gold_tables[pc], db[pc]), reject)

\* lines 615-649: refresh the views, ANALYZE, report, return True
Finish ==
    /\ pc = "finish"
    /\ result' = TRUE
    /\ pc' = "done"
    /\ UNCHANGED <<db, catalog, silver_df, gold_tables, source_mapping, stats, log, history,
                   faults, others>>

\* at most one object is missing from the catalog at a time
MissingSets == {m \in SUBSET Range(GoldObjects) : Cardinality(m) <= 1}

Next ==
    \/ \E b \in Batches, m \in MissingSets : StartRun(b, m)
    \/ \E reject \in BOOLEAN : LoadSilver(reject)
    \/ Transform
    \/ VerifySchema
    \/ \E reject \in BOOLEAN : LoadDimCvssSource(reject)
    \/ \E reject \in BOOLEAN : LoadDimension(reject)
    \/ \E reject \in BOOLEAN : LoadFactCvss(reject)
    \/ \E reject \in BOOLEAN : LoadBridge(reject)
    \/ Finish

Spec == Init /\ [][Next]_vars

\* the loaders called with if_exists='replace' (the --if-exists option of the scripts)
InitReplace ==
    /\ db = EmptyDb
    /\ catalog = Range(GoldObjects)
    /\ pc = "idle"
    /\ silver_df = <<>>
    /\ gold_tables = NoTables
    /\ source_mapping = <<>>
    /\ stats = <<>>
    /\ log = <<>>
    /\ result = None
    /\ history = <<>>
    /\ faults = 0
    /\ if_exists = "replace"
    /\ runs = <<>>
    /\ call = NoCall
    /\ ret = NoCall

ReplaceSpec == InitReplace /\ [][Next]_vars

(***************************************************************************)
(* The loaders that return counts, called on their own: load_to_bronze of  *)
(* batch/load/load_bronze_layer.py (execute_values), load_to_bronze of     *)
(* tip/load/load_bronze_layer.py (staging table) and load_to_silver_table. *)
(***************************************************************************)
\* INSERT ... ON CONFLICT (cve_id) DO NOTHING of the rows of one statement
InsertOnConflict(rows, values) ==
    rows \o SelectSeq(DropDuplicateCve(values), LAMBDA r : r.cve_id \notin CveIdsOf(rows))

\* cursor.rowcount before any statement was executed
NoRowcount == 0 - 1

\* psycopg2.extras.execute_values: one INSERT per page of page_size rows; afterwards
\* cur.rowcount is the row count of the last statement executed
RECURSIVE execute_values(_, _, _, _)
execute_values(rows, rowcount, argslist, page_size) ==
    IF argslist = <<>> THEN [rows |-> rows, rowcount |-> rowcount]
    ELSE LET n == IF Len(argslist) < page_size THEN Len(argslist) ELSE page_size
             after == InsertOnConflict(rows, SubSeq(argslist, 1, n))
         IN  execute_values(after, Len(after) - Len(rows),
                            SubSeq(argslist, n + 1, Len(argslist)), page_size)

Counts(inserted, skipped) ==
    [raised |-> FALSE, inserted |-> inserted, skipped |-> skipped, failed |-> 0]

\* stats['failed'] = len(df), and the exception goes to the caller
Raised(df) == [raised |-> TRUE, inserted |-> 0, skipped |-> 0, failed |-> Len(df)]

\* what a function called on its own returned
Returned(field, value) == [raised |-> FALSE, field |-> field, value |-> value]

\* what a loader called on its own leaves alone
NotLoaded ==
    UNCHANGED <<catalog, pc, silver_df, gold_tables, source_mapping, stats, log, result,
                history, if_exists, runs>>

\* frames of bronze rows: distinct, valid cve_ids
BronzeFrames ==
    LET ids == {r.cve_id : r \in Rows}
        Seqs == UNION {[1..n -> ids] : n \in 1..Cardinality(ids)}
    IN  {[i \in DOMAIN f |-> [cve_id |-> f[i]]] :
            f \in {g \in Seqs : \A i, j \in DOMAIN g : g[i] = g[j] => i = j}}

\* batch/load/load_bronze_layer.py: load_to_bronze(df, engine, batch_size)
load_to_bronze(df, batch_size, reject) ==
    LET valid == SelectSeq(df, LAMBDA r : r.cve_id # NoCveId)
        done == execute_values(db.cve_details, NoRowcount, valid, batch_size)
    IN  /\ call' = [fn |-> "load_to_bronze", df |-> df, batch_size |-> batch_size]
        /\ IF reject
           THEN /\ faults < MaxFaults
                /\ faults' = faults + 1
                /\ ret' = Raised(df)
                /\ UNCHANGED db
           ELSE /\ db' = [db EXCEPT !.cve_details = done.rows]
                /\ ret' = Counts(done.rowcount, Len(valid) - done.rowcount)
                /\ UNCHANGED faults
        /\ NotLoaded

\* tip/load/load_bronze_layer.py: load_to_bronze(df, engine): staging table, then
\* INSERT ... SELECT ... ON CONFLICT DO NOTHING, counted before and after
load_to_bronze_staging(df, reject) ==
    LET count_before == Len(db.cve_details)
        after == InsertOnConflict(db.cve_details, df)
        count_after == Len(after)
    IN  /\ call' = [fn |-> "load_to_bronze_staging", df |-> df, batch_size |-> MaxPage]
        /\ IF reject
           THEN /\ faults < MaxFaults
                /\ faults' = faults + 1
                /\ ret' = Raised(df)
                /\ UNCHANGED db
           ELSE /\ db' = [db EXCEPT !.cve_details = after]
                /\ ret' = Counts(count_after - count_before, Len(df) - (count_after - count_before))
                /\ UNCHANGED faults
        /\ NotLoaded

\* load_to_silver_table(df, engine): stats, or the exception raised again
load_to_silver_table(df, reject) ==
    LET df_prepared == prepare_silver_dataframe(df)
        existing_cves == CveIdsOf(db.cve_cleaned) \cap CveIdsOf(df_prepared)
        df_to_insert == SilverToInsert(df, db.cve_cleaned)
    IN  /\ call' = [fn |-> "load_to_silver_table", df |-> df, batch_size |-> MaxPage]
        /\ IF df_to_insert = <<>>
           THEN /\ ~reject
                /\ ret' = Counts(0, Cardinality(existing_cves))
                /\ UNCHANGED <<db, faults>>
           ELSE IF reject
           THEN /\ faults < MaxFaults
                /\ faults' = faults + 1
                /\ ret' = Raised(df)
                /\ UNCHANGED db
           ELSE /\ db' = [db EXCEPT !.cve_cleaned = to_sql(@, df_to_insert)]
                /\ ret' = Counts(Len(df_to_insert), Cardinality(existing_cves))
                /\ UNCHANGED faults
        /\ NotLoaded

NextLoad ==
    \/ \E df \in BronzeFrames, batch_size \in 1..MaxPage, reject \in BOOLEAN :
          load_to_bronze(df, batch_size, reject)
    \/ \E df \in BronzeFrames, reject \in BOOLEAN : load_to_bronze_staging(df, reject)
    \/ \E df \in Batches, reject \in BOOLEAN : load_to_silver_table(df, reject)

LoadSpec == Init /\ [][NextLoad]_vars

(***************************************************************************)
(* scrape_and_load_with_pipeline from its first step: the search result,   *)
(* the CVEs already in raw.cve_details, the scrape, the Bronze load and    *)
(* the cleaning of the scraped CVEs; steps 6 to 8 are the actions above.   *)
(* A page scraped for a CVE gives the row of that CVE.                     *)
(***************************************************************************)
RowNoScores == SilverRow(4, 2, <<>>, <<Prod(Beta, Gadget)>>)

\* the CVEs the search can list
ScrapeRows == {RowA, RowB, RowNoScores}

\* what extract_cve_links can return: no link, or links of distinct CVEs
SearchResults ==
    {<<>>} \cup {<<r>> : r \in ScrapeRows} \cup
    {b \in ScrapeRows \X ScrapeRows : b[1].cve_id # b[2].cve_id}

\* load_to_bronze(df, engine, batch_size=1000)
BronzeBatchSize == 1000

\* ORDER BY published_date DESC NULLS LAST
DateDescNullsLast(a, b) ==
    \/ b.published_date = NaT
    \/ a.published_date # NaT /\ a.published_date >= b.published_date

\* the frames the SELECT ... WHERE cve_id IN (...) ORDER BY ... can return: rows of
\* equal date come in an order the database chooses
load_scraped_cve_from_bronze(cve_ids, rows) ==
    LET found == {rows[i] : i \in {j \in DOMAIN rows : rows[j].cve_id \in cve_ids}}
        n == Cardinality(found)
    IN  IF cve_ids = {} THEN {<<>>}
        ELSE {f \in [1..n -> found] :
                /\ \A i, j \in 1..n : f[i] = f[j] => i = j
                /\ \A i, j \in 1..n : i < j => DateDescNullsLast(f[i], f[j])}

\* clean_silver_data: first row of each cve_id, rows without a date or without CVSS
\* scores dropped
clean_silver_data(df) ==
    SelectSeq(DropDuplicateCve(df),
              LAMBDA r : r.published_date # NaT /\ r.cvss_scores # <<>>)

\* the run just returned, as remembered by history
FinishedScrape ==
    [batch |-> silver_df,
     clean |-> result = TRUE /\ \A i \in DOMAIN log : log[i].event \notin {"rejected", "missing"},
     cve_links |-> call.cve_links,
     scraped_cve_data |-> call.scraped_cve_data,
     success |-> result]

\* steps 1 to 3: links, SELECT cve_id FROM raw.cve_details, scrape of the new ones
\* (ok: the CVEs whose page could be scraped)
StartScrape(cve_links, ok, missing) ==
    /\ pc \in {"idle", "done"}
    /\ Len(history) + (IF pc = "done" THEN 1 ELSE 0) < MaxRuns
    /\ missing # {} => faults < MaxFaults
    /\ faults' = IF missing # {} THEN faults + 1 ELSE faults
    /\ catalog' = Range(GoldObjects) \ missing
    /\ history' = IF pc = "done" THEN Append(history, FinishedScrape) ELSE history
    /\ LET scraped_cves == CveIdsOf(db.cve_details)
           to_scrape == SelectSeq(cve_links, LAMBDA r : r.cve_id \notin scraped_cves)
           scraped_cve_data == SelectSeq(to_scrape, LAMBDA r : r.cve_id \in ok)
       IN  /\ ok \subseteq CveIdsOf(to_scrape)
           /\ call' = [fn |-> "scrape_and_load_with_pipeline", cve_links |-> cve_links,
                       scraped_cve_data |-> scraped_cve_data]
           /\ IF cve_links = <<>> THEN result' = FALSE /\ pc' = "done"
              ELSE IF to_scrape = <<>> THEN result' = TRUE /\ pc' = "done"
              ELSE IF scraped_cve_data = <<>> THEN result' = FALSE /\ pc' = "done"
              ELSE result' = None /\ pc' = "bronze"
    /\ silver_df' = <<>>
    /\ gold_tables' = NoTables
    /\ source_mapping' = <<>>
    /\ stats' = <<>>
    /\ log' = <<>>
    /\ UNCHANGED <<db, if_exists, runs, ret>>

\* step 4: load_bronze_layer(scraped_cve_data, engine); load_to_bronze re-raises a
\* database error, which ends the run in the except branch
LoadBronze(reject) ==
    /\ pc = "bronze"
    /\ LET valid == SelectSeq(call.scraped_cve_data, LAMBDA r : r.cve_id # NoCveId)
           done == execute_values(db.cve_details, NoRowcount, valid, BronzeBatchSize)
       IN  IF reject
           THEN /\ faults < MaxFaults
                /\ faults' = faults + 1
                /\ log' = Append(log, Logged("cve_details", "rejected"))
                /\ result' = FALSE
                /\ pc' = "done"
                /\ UNCHANGED db
           ELSE /\ db' = [db EXCEPT !.cve_details = done.rows]
                /\ log' = Append(log, Logged("cve_details", "inserted"))
                /\ pc' = "eda"
                /\ UNCHANGED <<result, faults>>
    /\ UNCHANGED <<catalog, silver_df, gold_tables, source_mapping, stats, history, others>>

\* step 5: load_scraped_cve_from_bronze, perform_eda, clean_silver_data,
\* create_silver_layer
CleanScraped(df_scraped) ==
    /\ pc = "eda"
    /\ df_scraped \in load_scraped_cve_from_bronze(CveIdsOf(call.scraped_cve_data),
                                                   db.cve_details)
    /\ LET df_cleaned == clean_silver_data(df_scraped)
       IN  IF df_scraped = <<>> \/ df_cleaned = <<>>
           THEN /\ result' = FALSE
                /\ pc' = "done"
                /\ UNCHANGED silver_df
           ELSE /\ silver_df' = df_cleaned
                /\ pc' = "silver"
                /\ UNCHANGED result
    /\ UNCHANGED <<db, catalog, gold_tables, source_mapping, stats, log, history, faults,
                   others>>

\* the catalog at the start of a run: complete, or without the gold schema
ScrapeMissingSets == {{}, {GoldObjects[1]}}

\* the pages that can be scraped in a run
ScrapedSets == SUBSET {r.cve_id : r \in ScrapeRows}

\* the frames a read of Bronze can return
BronzeReads ==
    {<<>>} \cup {<<r>> : r \in ScrapeRows} \cup
    {b \in ScrapeRows \X ScrapeRows : b[1].cve_id # b[2].cve_id}

NextPipeline ==
    \/ \E cve_links \in SearchResults, ok \in ScrapedSets, m \in ScrapeMissingSets :
          StartScrape(cve_links, ok, m)
    \/ \E reject \in BOOLEAN : LoadBronze(reject)
    \/ \E df_scraped \in BronzeReads : CleanScraped(df_scraped)
    \/ \E reject \in BOOLEAN : LoadSilver(reject)
    \/ Transform
    \/ VerifySchema
    \/ \E reject \in BOOLEAN : LoadDimCvssSource(reject)
    \/ \E reject \in BOOLEAN : LoadDimension(reject)
    \/ \E reject \in BOOLEAN : LoadFactCvss(reject)
    \/ \E reject \in BOOLEAN : LoadBridge(reject)
    \/ Finish

PipelineSpec == Init /\ [][NextPipeline]_vars

(***************************************************************************)
(* create_vendors_products_and_bridge called on its own, on frames whose   *)
(* rows come in any order and may lack the published date.                 *)
(***************************************************************************)
MaxFrame == 2

\* affected_products lists: one product, two products of one vendor, the same product
\* twice (in two casings), a product of another vendor
ProductLists ==
    {<<Prod(AcmeCorp, Widget)>>,
     <<Prod(acme_corp, Widget), Prod(acme_corp, Gadget)>>,
     <<Prod(AcmeCorp, Widget), Prod(acme_corp, Widget)>>,
     <<Prod(Beta, Gadget)>>}

\* frames of one row per CVE; the CVE of row i is number i
TransformFrames ==
    UNION {{[i \in 1..n |-> SilverRow(i, f[i][1], <<>>, f[i][2])] :
               f \in [1..n -> {NaT, 1, 2} \X ProductLists]} : n \in 0..MaxFrame}

CallCreateVendorsProductsAndBridge(df) ==
    /\ call' = [fn |-> "create_vendors_products_and_bridge", df |-> df]
    /\ ret' = Returned("tables", create_vendors_products_and_bridge(df))
    /\ UNCHANGED <<db, faults>>
    /\ NotLoaded

CallTransformSilverToGold(df) ==
    /\ call' = [fn |-> "transform_silver_to_gold", df |-> df]
    /\ ret' = Returned("tables", transform_silver_to_gold(df))
    /\ UNCHANGED <<db, faults>>
    /\ NotLoaded

NextTransform ==
    \/ \E df \in TransformFrames : CallCreateVendorsProductsAndBridge(df)
    \/ \E df \in Batches : CallTransformSilverToGold(df)

TransformSpec == Init /\ [][NextTransform]_vars

(***************************************************************************)
(* batch/extract/scrape_cvefeed_bronze.py: scrape_and_load_batch, and the  *)
(* same loop in batch/extract/stream/scrape_live_cvefeed_bronze.py         *)
(* (scrape_and_load).  The locals of the call are kept in runs: the        *)
(* position (at), to_scrape, idx, batch, the records scraped and counted,  *)
(* and the lists handed to load_bronze_layer so far.  A KeyboardInterrupt  *)
(* can arrive at any position inside the try block.                        *)
(***************************************************************************)
MaxBatchSize == 2

\* cve_list: the CVEs to process, each once
CveLists ==
    LET Seqs == UNION {[1..n -> ScrapeRows] : n \in 0..Cardinality(ScrapeRows)}
    IN  {f \in Seqs : \A i, j \in DOMAIN f : f[i] = f[j] => i = j}

\* load_bronze_layer(batch, engine) when the database accepts the statement
load_bronze_layer(rows, batch) ==
    execute_values(rows, NoRowcount, SelectSeq(batch, LAMBDA r : r.cve_id # NoCveId),
                   BronzeBatchSize).rows

NotScraped ==
    UNCHANGED <<catalog, pc, silver_df, gold_tables, source_mapping, stats, log, result,
                history, if_exists>>

InTry == call.fn = "scrape_and_load_batch" /\ runs.at \in {"scrape", "flush", "reset", "sleep"}

\* the head of the function: SELECT cve_id FROM raw.cve_details, to_scrape, early return
StartBatch(cve_list, batch_size) ==
    /\ IF call.fn = "scrape_and_load_batch" THEN runs.at \in {"returned", "raised"} ELSE TRUE
    /\ Len(db.cve_details) < Cardinality(ScrapeRows)
    /\ LET scraped_cves == CveIdsOf(db.cve_details)
           to_scrape == SelectSeq(cve_list, LAMBDA r : r.cve_id \notin scraped_cves)
       IN  /\ call' = [fn |-> "scrape_and_load_batch", cve_list |-> cve_list,
                       batch_size |-> batch_size]
           /\ runs' = [at |-> IF to_scrape = <<>> THEN "returned" ELSE "scrape",
                       to_scrape |-> to_scrape, idx |-> 0, batch |-> <<>>,
                       scraped |-> <<>>, handed |-> <<>>]
           /\ ret' = NoCall
    /\ UNCHANGED <<db, faults>>
    /\ NotScraped

\* data = self.scrape_cve_page(url); if data: batch.append(data), scraped += 1
ScrapePage(ok) ==
    /\ InTry
    /\ runs.at = "scrape"
    /\ LET data == runs.to_scrape[runs.idx + 1]
       IN  runs' = [runs EXCEPT !.idx = @ + 1,
                                !.batch = IF ok THEN Append(@, data) ELSE @,
                                !.scraped = IF ok THEN Append(@, data) ELSE @,
                                !.at = "flush"]
    /\ UNCHANGED <<db, faults, call, ret>>
    /\ NotScraped

\* if len(batch) >= batch_size or idx == len(to_scrape): if batch: load_bronze_layer(batch);
\* a database error raised by the load leaves the function
FlushBatch(reject) ==
    /\ InTry
    /\ runs.at = "flush"
    /\ IF (Len(runs.batch) >= call.batch_size \/ runs.idx = Len(runs.to_scrape))
          /\ runs.batch # <<>>
       THEN IF reject
            THEN /\ faults < MaxFaults
                 /\ faults' = faults + 1
                 /\ runs' = [runs EXCEPT !.handed = Append(@, runs.batch), !.at = "raised"]
                 /\ UNCHANGED db
            ELSE /\ db' = [db EXCEPT !.cve_details = load_bronze_layer(@, runs.batch)]
                 /\ runs' = [runs EXCEPT !.handed = Append(@, runs.batch), !.at = "reset"]
                 /\ UNCHANGED faults
       ELSE /\ ~reject
            /\ runs' = [runs EXCEPT !.at = "sleep"]
            /\ UNCHANGED <<db, faults>>
    /\ UNCHANGED <<call, ret>>
    /\ NotScraped

ResetBatch_keepbatch ==
    /\ InTry
    /\ runs.at = "reset"
    /\ runs' = [runs EXCEPT !.at = "sleep"]
    /\ UNCHANGED <<db, faults, call, ret>>
    /\ NotScraped

\* batch = []  # Reset batch
ResetBatch ==
    /\ InTry
    /\ runs.at = "reset"
    /\ runs' = [runs EXCEPT !.batch = <<>>, !.at = "sleep"]
    /\ UNCHANGED <<db, faults, call, ret>>
    /\ NotScraped

\* if idx < len(to_scrape): time.sleep(delay); then the next CVE, or the end of the loop,
\* the summary and return overall_stats
SleepOrReturn ==
    /\ InTry
    /\ runs.at = "sleep"
    /\ IF runs.idx < Len(runs.to_scrape)
       THEN /\ runs' = [runs EXCEPT !.at = "scrape"]
            /\ UNCHANGED ret
       ELSE /\ runs' = [runs EXCEPT !.at = "returned"]
            /\ ret' = [raised |-> FALSE, total |-> Len(runs.to_scrape),
                       scraped |-> Len(runs.scraped)]
    /\ UNCHANGED <<db, faults, call>>
    /\ NotScraped

\* except KeyboardInterrupt: if batch: load_bronze_layer(batch); then the summary and
\* return.  The interrupt arrives at the current position; at "flush" it can also arrive
\* inside load_bronze_layer (began: the list was handed over, and committed or not)
KeyboardInterrupt(began, committed, reject) ==
    /\ InTry
    /\ began => /\ runs.at = "flush"
                /\ (Len(runs.batch) >= call.batch_size \/ runs.idx = Len(runs.to_scrape))
                /\ runs.batch # <<>>
    /\ committed => began
    /\ LET handed == IF began THEN Append(runs.handed, runs.batch) ELSE runs.handed
           rows == IF committed THEN load_bronze_layer(db.cve_details, runs.batch)
                   ELSE db.cve_details
       IN  IF runs.batch = <<>>
           THEN /\ ~reject
                /\ runs' = [runs EXCEPT !.at = "returned"]
                /\ ret' = [raised |-> FALSE, total |-> Len(runs.to_scrape),
                           scraped |-> Len(runs.scraped)]
                /\ UNCHANGED <<db, faults>>
           ELSE IF reject
           THEN /\ faults < MaxFaults
                /\ faults' = faults + 1
                /\ runs' = [runs EXCEPT !.handed = Append(handed, runs.batch),
                                         !.at = "raised"]
                /\ db' = [db EXCEPT !.cve_details = rows]
                /\ UNCHANGED ret
           ELSE /\ db' = [db EXCEPT !.cve_details = load_bronze_layer(rows, runs.batch)]
                /\ runs' = [runs EXCEPT !.handed = Append(handed, runs.batch),
                                         !.at = "returned"]
                /\ ret' = [raised |-> FALSE, total |-> Len(runs.to_scrape),
                           scraped |-> Len(runs.scraped)]
                /\ UNCHANGED faults
    /\ UNCHANGED call
    /\ NotScraped

NextBatch ==
    \/ \E cve_list \in CveLists, batch_size \in 1..MaxBatchSize :
          StartBatch(cve_list, batch_size)
    \/ \E ok \in BOOLEAN : ScrapePage(ok)
    \/ \E reject \in BOOLEAN : FlushBatch(reject)
    \/ ResetBatch
    \/ SleepOrReturn
    \/ \E began, committed, reject \in BOOLEAN : KeyboardInterrupt(began, committed, reject)

BatchSpec == Init /\ [][NextBatch]_vars

(***************************************************************************)
(* utils/cvss_parser.py.  The parser reads a vector pair by pair, so here  *)
(* a vector is the tuple of its metric codes, its value codes and the      *)
(* separators "/" and ":".  The names of the parsed columns are strings.   *)
(***************************************************************************)
MaxPairs == 2

CVSS_V2_METRICS == {"AV", "AC", "Au", "C", "I", "A"}

CVSS_V3_BASE_METRICS == {"AV", "AC", "PR", "UI", "S", "C", "I", "A"}

CVSS_V3_TEMPORAL_METRICS == {"E", "RL", "RC"}

CVSS_V3_ENVIRONMENTAL_METRICS ==
    {"CR", "IR", "AR", "MAV", "MAC", "MPR", "MUI", "MS", "MC", "MI", "MA"}

CVSS_V4_BASE_METRICS == {"AV", "AT", "AC", "VC", "VI", "VA", "SC", "SI", "SA"}

\* str.lower() of one symbol of a metric key
LowerCode(c) ==
    CASE c = "AV" -> "av"
      [] c = "AC" -> "ac"
      [] c = "Au" -> "au"
      [] c = "C" -> "c"
      [] c = "I" -> "i"
      [] c = "A" -> "a"
      [] c = "PR" -> "pr"
      [] c = "UI" -> "ui"
      [] c = "S" -> "s"
      [] c = "E" -> "e"
      [] c = "RL" -> "rl"
      [] c = "RC" -> "rc"
      [] c = "CR" -> "cr"
      [] c = "IR" -> "ir"
      [] c = "AR" -> "ar"
      [] c = "MAV" -> "mav"
      [] c = "MAC" -> "mac"
      [] c = "MPR" -> "mpr"
      [] c = "MUI" -> "mui"
      [] c = "MS" -> "ms"
      [] c = "MC" -> "mc"
      [] c = "MI" -> "mi"
      [] c = "MA" -> "ma"
      [] c = "AT" -> "at"
      [] c = "VC" -> "vc"
      [] c = "VI" -> "vi"
      [] c = "VA" -> "va"
      [] c = "SC" -> "sc"
      [] c = "SI" -> "si"
      [] c = "SA" -> "sa"
      [] c = "CVSS" -> "cvss"
      [] c = "ZZ" -> "zz"
      [] OTHER -> c

\* the string written by the symbols of a text
RECURSIVE Join(_)
Join(s) == IF s = <<>> THEN "" ELSE Head(s) \o Join(Tail(s))

\* key.lower() as a string
key_lower(key) == Join([i \in DOMAIN key |-> LowerCode(key[i])])

\* s.split(sep)
RECURSIVE split(_, _)
split(s, sep) ==
    IF sep \in Range(s)
    THEN LET i == CHOOSE k \in DOMAIN s : s[k] = sep /\ \A j \in 1..(k - 1) : s[j] # sep
         IN  <<SubSeq(s, 1, i - 1)>> \o split(SubSeq(s, i + 1, Len(s)), sep)
    ELSE <<s>>

\* key, value = pair.split(":", 1), both stripped
split_pair(pair) ==
    LET i == CHOOSE k \in DOMAIN pair : pair[k] = ":" /\ \A j \in 1..(k - 1) : pair[j] # ":"
    IN  [key |-> Strip(SubSeq(pair, 1, i - 1)),
         value |-> Strip(SubSeq(pair, i + 1, Len(pair)))]

\* key in TABLE, for a key that is one metric code
InTable(key, table) == Len(key) = 1 /\ key[1] \in table

EmptyDict == [c \in {} |-> None]

\* metrics[column] = value
Put(metrics, column, value) ==
    [c \in DOMAIN metrics \cup {column} |-> IF c = column THEN value ELSE metrics[c]]

\* metrics.get(column)
metrics_get(metrics, column) == IF column \in DOMAIN metrics THEN metrics[column] ELSE None

\* the column a pair of the vector is stored under, None when the pair is dropped
Column(version, key) ==
    CASE version = "v2" ->
             IF InTable(key, CVSS_V2_METRICS) THEN "cvss_v2_" \o key_lower(key) ELSE None
      [] version = "v3" ->
             IF InTable(key, CVSS_V3_BASE_METRICS) THEN "cvss_v3_base_" \o key_lower(key)
             ELSE IF InTable(key, CVSS_V3_TEMPORAL_METRICS) THEN "cvss_v3_temp_" \o key_lower(key)
             ELSE IF InTable(key, CVSS_V3_ENVIRONMENTAL_METRICS)
                  THEN "cvss_v3_env_" \o key_lower(key)
             ELSE None
      [] version = "v4" -> "cvss_v4_" \o key_lower(key)

\* the loop over the pairs: a pair with a colon and a column stores its value as written
RECURSIVE StorePairs(_, _, _)
StorePairs(metrics, pairs, version) ==
    IF pairs = <<>> THEN metrics
    ELSE LET pair == Head(pairs)
             stored == IF ":" \in Range(pair)
                       THEN LET kv == split_pair(pair)
                                column == Column(version, kv.key)
                            IN  IF column = None THEN metrics
                                ELSE Put(metrics, column, Join(kv.value))
                       ELSE metrics
         IN  StorePairs(stored, Tail(pairs), version)

\* "Fill missing with None"
FillMissing(metrics, columns) ==
    [c \in DOMAIN metrics \cup columns |-> IF c \in DOMAIN metrics THEN metrics[c] ELSE None]

_parse_v2(vector) ==
    FillMissing(StorePairs(EmptyDict, split(vector, "/"), "v2"),
                {"cvss_v2_" \o LowerCode(k) : k \in CVSS_V2_METRICS})

_parse_v3(vector) ==
    FillMissing(StorePairs(EmptyDict, split(vector, "/"), "v3"),
                {"cvss_v3_base_" \o LowerCode(k) : k \in CVSS_V3_BASE_METRICS})

_parse_v4(vector) == StorePairs(EmptyDict, split(vector, "/"), "v4")

parse_vector(vector, version) ==
    IF vector = <<>> THEN EmptyDict
    ELSE CASE version = "v2" -> _parse_v2(Strip(vector))
           [] version = "v3" -> _parse_v3(Strip(vector))
           [] version = "v4" -> _parse_v4(Strip(vector))
           [] OTHER -> EmptyDict

\* the decoded columns of a fact record of create_cvss_facts
MetricColumns(vkey) ==
    CASE vkey = "v2" -> {"cvss_v2_av", "cvss_v2_ac", "cvss_v2_au", "cvss_v2_c", "cvss_v2_i",
                         "cvss_v2_a"}
      [] vkey = "v3" -> {"cvss_v3_base_av", "cvss_v3_base_ac", "cvss_v3_base_pr",
                         "cvss_v3_base_ui", "cvss_v3_base_s", "cvss_v3_base_c",
                         "cvss_v3_base_i", "cvss_v3_base_a"}
      [] vkey = "v4" -> {"cvss_v4_av", "cvss_v4_at", "cvss_v4_ac", "cvss_v4_vc", "cvss_v4_vi",
                         "cvss_v4_va", "cvss_v4_sc", "cvss_v4_si", "cvss_v4_sa"}

DecodedRecord_skipempty(score_entry) ==
    LET vi == get_version_info(score_entry.version)
        vector == _norm_text(score_entry.vector, 0)
        metrics == parse_vector(vector, vi[1])
    IN  IF vi[1] = None \/ vector = <<>> THEN <<>>
        ELSE IF \A c \in DOMAIN metrics : metrics[c] = None THEN <<>>
        ELSE <<[vkey |-> vi[1], cvss_vector |-> vector,
                columns |-> [c \in MetricColumns(vi[1]) |-> metrics_get(metrics, c)]]>>

\* the records (none or one) create_cvss_facts appends for one score entry, with the
\* columns it takes from the parsed metrics
DecodedRecord(score_entry) ==
    LET vi == get_version_info(score_entry.version)
        vector == _norm_text(score_entry.vector, 0)
    IN  IF vi[1] = None \/ vector = <<>> THEN <<>>
        ELSE LET metrics == parse_vector(vector, vi[1])
             IN  <<[vkey |-> vi[1], cvss_vector |-> vector,
                    columns |-> [c \in MetricColumns(vi[1]) |-> metrics_get(metrics, c)]]>>

\* the loop over the score entries of one row
RECURSIVE DecodedRecords(_)
DecodedRecords(scores) ==
    IF scores = <<>> THEN <<>>
    ELSE DecodedRecord(Head(scores)) \o DecodedRecords(Tail(scores))

\* vectors given to the parser
Segments ==
    {<<"CVSS", ":", "3.1">>, <<"CVSS", ":", "4.0">>, <<"AV", ":", "N">>, <<"AV", ":", "L">>,
     <<"C", ":", "H">>, <<"Au", ":", "S">>, <<"E", ":", "U">>, <<"ZZ", ":", "Y">>, <<"XX">>,
     <<SPACE, "AC", SPACE, ":", SPACE, "L", SPACE>>}

RECURSIVE VectorsOf(_)
VectorsOf(n) ==
    IF n = 0 THEN {<<>>}
    ELSE LET shorter == VectorsOf(n - 1)
         IN  shorter \cup Segments
                \cup {v \o <<"/">> \o s : v \in shorter \ {<<>>}, s \in Segments}

ExampleVector ==
    <<"CVSS", ":", "3.1", "/", "AV", ":", "N", "/", "AC", ":", "L", "/", "PR", ":", "N", "/",
      "UI", ":", "N", "/", "S", ":", "U", "/", "C", ":", "H", "/", "I", ":", "H", "/",
      "A", ":", "H">>

Vectors == VectorsOf(MaxPairs) \cup {ExampleVector}

VersionTags == {"CVSS 2.0", "CVSS 3.0", "CVSS 3.1", "CVSS 4.0", "CVSS 9.9"}

CallParseVector(vector, version) ==
    /\ call' = [fn |-> "parse_vector", vector |-> vector, version |-> version]
    /\ ret' = Returned("metrics", parse_vector(vector, version))
    /\ UNCHANGED <<db, faults>>
    /\ NotLoaded

CallCreateCvssFacts(score_entry) ==
    /\ call' = [fn |-> "create_cvss_facts", vector |-> score_entry.vector,
                version |-> score_entry.version]
    /\ ret' = Returned("records", DecodedRecord(score_entry))
    /\ UNCHANGED <<db, faults>>
    /\ NotLoaded

\* the score entries of the rows given to create_cvss_facts: an entry of each version
\* with a vector without pairs, with pairs, or blank, followed by another entry
RowEntries ==
    {Entry(version, nvd, vector, 9) :
        version \in VersionTags,
        vector \in {<<"XX">>, <<"XX", "/", "YY">>, <<"AV", ":", "N">>, <<SPACE>>}}

ScoreLists == {<<e>> : e \in RowEntries} \cup (RowEntries \X RowEntries)

CallCreateCvssFactsOfRow(scores) ==
    /\ call' = [fn |-> "create_cvss_facts_of_row", scores |-> scores]
    /\ ret' = Returned("records", DecodedRecords(scores))
    /\ UNCHANGED <<db, faults>>
    /\ NotLoaded

NextParse ==
    \/ \E vector \in Vectors, version \in {"v2", "v3", "v4"} : CallParseVector(vector, version)
    \/ \E vector \in Vectors, version \in VersionTags :
          CallCreateCvssFacts(Entry(version, nvd, vector, 9))

ParserSpec == Init /\ [][NextParse]_vars

\* create_cvss_facts called on rows of score entries
NextFacts == \E scores \in ScoreLists : CallCreateCvssFactsOfRow(scores)

FactsSpec == Init /\ [][NextFacts]_vars

(***************************************************************************)
(* The loads of load_gold_layer statement by statement.  Every load is a   *)
(* SELECT of the persisted keys, a filter of the frame in memory and an    *)
(* INSERT, three separate moments between which another run on the same    *)
(* database can act: the loaders take no lock and open no transaction      *)
(* around the three.                                                       *)
(***************************************************************************)
RunIds == {"session_a", "session_b"}

TableOf(step) == IF step = "source" THEN "dim_cvss_source" ELSE step

LoadSteps_insertfirst == <<"select", "insert", "filter">>

\* the statements of one load, in the order of the code
LoadSteps == <<"select", "filter", "insert">>

PhaseAfter(phase) ==
    LET i == CHOOSE j \in DOMAIN LoadSteps : LoadSteps[j] = phase
    IN  IF i < Len(LoadSteps) THEN LoadSteps[i + 1] ELSE "end"

\* the frame a load works on once its guards and clean-up are done
Prepared(run, step) ==
    CASE step = "source" -> sorted({x \in CollectSources(run.tables) : x # <<>>})
      [] step \in DimTables -> run.tables[step]
      [] step \in FactTables -> MapSources(run.tables[step], run.mapping)
      [] step = "bridge_cve_products" -> BridgeToInsert(run.tables[step], <<>>)

\* the early returns before any statement is sent
NothingToLoad(run, step) ==
    CASE step = "source" -> CollectSources(run.tables) = {}
      [] OTHER -> Prepared(run, step) = <<>>

\* df_to_insert, filtered against the keys as they were read
Filtered(run, step) ==
    LET rows == run.seen
    IN  CASE step = "source" -> NewSources(run.tables, rows)
          [] step \in DimTables -> DimensionToInsert(run.tables[step], step, rows)
          [] step \in FactTables -> FactToInsert(run.tables[step], run.mapping, rows)
          [] step = "bridge_cve_products" -> BridgeToInsert(run.tables[step], rows)

Did(step, what) == [table |-> step, step |-> what]

NewRun(b) ==
    [batch |-> b, tables |-> transform_silver_to_gold(b), mapping |-> <<>>,
     at |-> "verify", phase |-> "select", seen |-> <<>>, df_to_insert |-> <<>>,
     verified |-> FALSE, trace |-> <<>>, result |-> None]

\* two sessions start on the same database, each with its cleaned frame (which of the
\* two is called session_a does not matter)
InitSteps ==
    /\ db = EmptyDb
    /\ catalog \in {Range(GoldObjects) \ m : m \in {{}, {"schema"}, {"dim_vendor"}}}
    /\ pc = "idle"
    /\ silver_df = <<>>
    /\ gold_tables = NoTables
    /\ source_mapping = <<>>
    /\ stats = <<>>
    /\ log = <<>>
    /\ result = None
    /\ history = <<>>
    /\ faults = 0
    /\ if_exists = "append"
    /\ runs \in {f \in [RunIds -> {NewRun(<<r>>) : r \in Rows}] :
                    f["session_a"].batch[1].cve_id <= f["session_b"].batch[1].cve_id}
    /\ call = NoCall
    /\ ret = NoCall

Untouched ==
    UNCHANGED <<catalog, pc, silver_df, gold_tables, source_mapping, stats, log, result,
                history, if_exists, call, ret>>

\* the run goes on to the next load of load_gold_layer
Advance(run) ==
    [run EXCEPT !.at = NextStep(@), !.phase = "select", !.seen = <<>>, !.df_to_insert = <<>>]

\* the load returns; load_dim_cvss_source first reads the table back for the mapping
AfterLoad(run) ==
    IF run.at = "source" THEN [run EXCEPT !.phase = "mapping"] ELSE Advance(run)

\* the statement that follows, or the return after the last one
StepDone(run) ==
    IF PhaseAfter(run.phase) = "end" THEN AfterLoad(run)
    ELSE [run EXCEPT !.phase = PhaseAfter(run.phase)]

Loading(run) == run.at \notin {"verify", "finish", "done"}

\* verify_gold_schema, before any load
RunVerify(r) ==
    /\ runs[r].at = "verify"
    /\ runs' = [runs EXCEPT ![r] =
                  IF FirstMissing(catalog) # None
                  THEN [@ EXCEPT !.at = "done", !.result = FALSE]
                  ELSE [@ EXCEPT !.at = "source", !.verified = TRUE]]
    /\ UNCHANGED <<db, faults>>
    /\ Untouched

\* SELECT the persisted keys of the table (or return early on an empty frame)
RunSelect(r) ==
    LET run == runs[r]
    IN  /\ Loading(run)
        /\ run.phase = "select"
        /\ runs' = [runs EXCEPT ![r] =
                      IF NothingToLoad(run, run.at)
                      THEN (IF run.at = "source" THEN Advance([run EXCEPT !.mapping = <<>>])
                            ELSE Advance(run))
                      ELSE StepDone([run EXCEPT
                                        !.seen = db[TableOf(run.at)],
                                        !.df_to_insert = Prepared(run, run.at),
                                        !.trace = <<Did(run.at, "KEYS_RESOLVED")>>])]
        /\ UNCHANGED <<db, faults>>
        /\ Untouched

\* keep the rows whose key was not among those read; return when none is left
RunFilter(r) ==
    LET run == runs[r]
        filtered == [run EXCEPT !.df_to_insert = Filtered(run, run.at),
                                !.trace = Append(@, Did(run.at, "ROWS_FILTERED"))]
    IN  /\ Loading(run)
        /\ run.phase = "filter"
        /\ runs' = [runs EXCEPT ![r] =
                      IF filtered.df_to_insert = <<>> THEN AfterLoad(filtered)
                      ELSE StepDone(filtered)]
        /\ UNCHANGED <<db, faults>>
        /\ Untouched

\* to_sql of the frame; a rejected dimension, fact or bridge INSERT is answered with
\* 0, a rejected dim_cvss_source INSERT ends load_gold_layer
RunInsert(r, reject) ==
    LET run == runs[r]
        frame == IF run.at = "source"
                 THEN SerialSourceRows(db.dim_cvss_source, run.df_to_insert)
                 ELSE run.df_to_insert
    IN  /\ Loading(run)
        /\ run.phase = "insert"
        /\ IF reject
           THEN /\ faults < MaxFaults
                /\ faults' = faults + 1
                /\ runs' = [runs EXCEPT ![r] =
                              LET rejected == [run EXCEPT !.trace =
                                                  Append(@, Did(run.at, "REJECTED"))]
                              IN  IF run.at = "source"
                                  THEN [rejected EXCEPT !.at = "done", !.result = FALSE]
                                  ELSE Advance(rejected)]
                /\ UNCHANGED db
           ELSE /\ db' = [db EXCEPT ![TableOf(run.at)] = to_sql_if_exists(@, frame, if_exists)]
                /\ runs' = [runs EXCEPT ![r] =
                              StepDone([run EXCEPT !.trace = Append(@, Did(run.at, "INSERTED"))])]
                /\ UNCHANGED faults
        /\ Untouched

\* load_dim_cvss_source reads the table back: {source_name: source_id}
RunMapping(r) ==
    /\ runs[r].at = "source"
    /\ runs[r].phase = "mapping"
    /\ runs' = [runs EXCEPT ![r] = Advance([@ EXCEPT !.mapping = BuildMapping(db.dim_cvss_source)])]
    /\ UNCHANGED <<db, faults>>
    /\ Untouched

RunFinish(r) ==
    /\ runs[r].at = "finish"
    /\ runs' = [runs EXCEPT ![r] = [@ EXCEPT !.at = "done", !.result = TRUE]]
    /\ UNCHANGED <<db, faults>>
    /\ Untouched

NextSteps ==
    \/ \E r \in RunIds : RunVerify(r)
    \/ \E r \in RunIds : RunSelect(r)
    \/ \E r \in RunIds : RunFilter(r)
    \/ \E r \in RunIds, reject \in BOOLEAN : RunInsert(r, reject)
    \/ \E r \in RunIds : RunMapping(r)
    \/ \E r \in RunIds : RunFinish(r)

StepSpec == InitSteps /\ [][NextSteps]_vars

(***************************************************************************)
(* Properties                                                              *)
(***************************************************************************)
Last(s) == s[Len(s)]

Added(t) == SubSeq(db'[t], Len(db[t]) + 1, Len(db'[t]))

Running == pc \notin {"idle", "done"}

RepeatsCleanRun ==
    /\ history # <<>>
    /\ Last(history).batch = silver_df
    /\ Last(history).clean

C2_AppendOnly == [][\A t \in DOMAIN db : IsPrefix(db[t], db'[t])]_vars

C2_Witness ==
    /\ pc = "done"
    /\ history # <<>>
    /\ \E i \in DOMAIN log : log[i].event = "rejected"
    /\ \E i \in DOMAIN log : log[i].event = "inserted" /\ log[i].table \in GoldTables
    /\ Len(db.cve_cleaned) > 1
    /\ Len(db.dim_cve) > 1

KeyOf(t, r) == IF t = "bridge_cve_products" THEN BridgeKey(r) ELSE FactKey(r)

KeysIn(t, rows) == {KeyOf(t, rows[i]) : i \in DOMAIN rows}

\* the rows load_fact_cvss / load_bridge receive, in the shape of the table
IncomingRows(t) ==
    IF t = "bridge_cve_products" THEN gold_tables[t] ELSE MapSources(gold_tables[t], source_mapping)

\* C3: in load_fact_cvss and load_bridge no row whose composite key is already persisted
\* is written, this is not an error, and when the storage accepts the write every
\* incoming row whose key was not persisted is in the table afterwards.
C3_CompositeKeySkip ==
    [][(pc \in FactTables \cup {"bridge_cve_products"}) =>
          LET t == pc
              added == Added(t)
              incoming == IncomingRows(t)
          IN  /\ \A i \in DOMAIN added : KeyOf(t, added[i]) \notin KeysIn(t, db[t])
              /\ result' = result
              /\ Last(log').event # "rejected" =>
                    \A i \in DOMAIN incoming :
                        KeyOf(t, incoming[i]) \notin KeysIn(t, db[t]) =>
                            incoming[i] \in Range(added)
              /\ (\A i \in DOMAIN incoming : KeyOf(t, incoming[i]) \in KeysIn(t, db[t])) =>
                    (added = <<>> /\ Last(log').event \in {"skipped", "empty"})]_vars

\* a fact load and a bridge load that each skipped some incoming rows and wrote others
C3_Witness ==
    /\ pc = "done"
    /\ result = TRUE
    /\ \E t \in FactTables :
          /\ stats[t] > 0
          /\ Len(db[t]) > stats[t]
          /\ \E i \in DOMAIN gold_tables[t] :
                \E j \in 1..(Len(db[t]) - stats[t]) :
                    /\ db[t][j].cve_id = gold_tables[t][i].cve_id
                    /\ db[t][j].cvss_vector = gold_tables[t][i].cvss_vector
    /\ stats["bridge"] > 0
    /\ Len(gold_tables.bridge_cve_products) > stats["bridge"]

DuplicatedNewKeys(t) ==
    LET incoming == IncomingRows(t)
    IN  {KeyOf(t, incoming[i]) : i \in {i \in DOMAIN incoming :
            /\ KeyOf(t, incoming[i]) \notin KeysIn(t, db[t])
            /\ \E j \in DOMAIN incoming :
                  /\ j # i
                  /\ KeyOf(t, incoming[j]) = KeyOf(t, incoming[i])
                  /\ incoming[j].cvss_score # incoming[i].cvss_score}}

FirstWithKey(t, rows, k) ==
    rows[CHOOSE i \in DOMAIN rows :
            KeyOf(t, rows[i]) = k /\ \A j \in 1..(i - 1) : KeyOf(t, rows[j]) # k]

\* C4 (as claimed): when one fact load receives two rows with the same (cve_id, source,
\* vector) and different scores, the key not being persisted, and the storage accepts
\* the write, exactly one row with that key is persisted, it is the first of the batch,
\* and the count returned is the number of distinct new keys (1 for that pair, not 2).
C4_FirstSeenWins ==
    [][(pc \in FactTables /\ DuplicatedNewKeys(pc) # {} /\ Last(log').event = "inserted") =>
          LET t == pc
              incoming == IncomingRows(t)
          IN  /\ \A k \in DuplicatedNewKeys(t) :
                    /\ Cardinality({i \in DOMAIN db'[t] : KeyOf(t, db'[t][i]) = k}) = 1
                    /\ FirstWithKey(t, incoming, k) \in Range(db'[t])
              /\ stats'[t] = Cardinality(KeysIn(t, incoming) \ KeysIn(t, db[t]))]_vars

VendorKey(r) == Lower(r.vendor_name)

\* identity of a product row: (vendor key, product key), the vendor being the row of
\* the same table set that carries the product's vendor_id
ProductKeys(products, vendors, r) ==
    {<<VendorKey(vendors[i]), Lower(r.product_name)>> :
        i \in {i \in DOMAIN vendors : vendors[i].vendor_id = r.vendor_id}}

\* C5 (as claimed): vendor_id and product_id are stable across runs: a persisted key has
\* one ID, the ID a run gives to a persisted key is the persisted one, an ID is never
\* given to a key other than the one it is persisted for, and IDs grow with insertion
\* (stated for the runs in which the storage rejects nothing).
C5_StableIds ==
    faults = 0 =>
    /\ \A i, j \in DOMAIN db.dim_vendor :
          /\ VendorKey(db.dim_vendor[i]) = VendorKey(db.dim_vendor[j]) => i = j
          /\ i < j => db.dim_vendor[i].vendor_id < db.dim_vendor[j].vendor_id
    /\ \A i \in DOMAIN gold_tables.dim_vendor : \A j \in DOMAIN db.dim_vendor :
          (VendorKey(gold_tables.dim_vendor[i]) = VendorKey(db.dim_vendor[j]))
              <=> (gold_tables.dim_vendor[i].vendor_id = db.dim_vendor[j].vendor_id)
    /\ \A i, j \in DOMAIN db.dim_products :
          /\ (ProductKeys(db.dim_products, db.dim_vendor, db.dim_products[i]) \cap
              ProductKeys(db.dim_products, db.dim_vendor, db.dim_products[j]) # {}) => i = j
          /\ i < j => db.dim_products[i].product_id < db.dim_products[j].product_id
    /\ \A i \in DOMAIN gold_tables.dim_products : \A j \in DOMAIN db.dim_products :
          (ProductKeys(gold_tables.dim_products, gold_tables.dim_vendor,
                       gold_tables.dim_products[i]) =
           ProductKeys(db.dim_products, db.dim_vendor, db.dim_products[j]))
              <=> (gold_tables.dim_products[i].product_id = db.dim_products[j].product_id)

\* the batches of all runs so far, the current one last
AllBatches == [i \in 1..(Len(history) + 1) |->
                  IF i <= Len(history) THEN history[i].batch ELSE silver_df]

Introduces(batch, name) ==
    \E i \in DOMAIN batch : \E j \in DOMAIN batch[i].affected_products :
        _norm_text(batch[i].affected_products[j].vendor, 0) = name

\* the CVEs that list the vendor with key k in any of the batches
CvesReferencing(batches, k) ==
    UNION {{batches[b][i].cve_id : i \in {i \in DOMAIN batches[b] :
                \E j \in DOMAIN batches[b][i].affected_products :
                    Lower(_norm_text(batches[b][i].affected_products[j].vendor, 0)) = k}}
              : b \in DOMAIN batches}

\* C6 (as claimed): after a run on a batch introducing "Acme Corp" and a run on a batch
\* introducing "acme corp", both without failure, dim_vendor has exactly one row for
\* the vendor, with the first-seen casing, and its total_cves is the number of distinct
\* CVEs that reference the vendor in the two batches.
C6_VendorMerge ==
    (/\ pc = "done"
     /\ result = TRUE
     /\ Len(history) = 1
     /\ history[1].clean
     /\ \A i \in DOMAIN log : log[i].event # "rejected"
     /\ Introduces(history[1].batch, AcmeCorp)
     /\ ~Introduces(history[1].batch, acme_corp)
     /\ Introduces(silver_df, acme_corp))
    => LET rows == SelectSeq(db.dim_vendor, LAMBDA r : VendorKey(r) = Lower(AcmeCorp))
       IN  /\ Len(rows) = 1
           /\ rows[1].vendor_name = AcmeCorp
           /\ rows[1].total_cves = Cardinality(CvesReferencing(AllBatches, Lower(AcmeCorp)))

\* what must have been loaded before a table is loaded
Requires(table_name) ==
    CASE table_name = "dim_products" -> {"dim_vendor", "dim_cvss_source"}
      [] table_name \in FactTables -> {"dim_products", "dim_cve", "dim_cvss_source"}
      [] table_name = "bridge_cve_products" -> {"dim_products", "dim_cve"} \cup FactTables
      [] OTHER -> {}

C8_SchemaMissingAborts ==
    catalog # Range(GoldObjects) =>
        /\ pc \in {"silver", "transform", "verify", "done"}
        /\ \A i \in DOMAIN log : log[i].table \in GoldTables => log[i].event = "missing"
        /\ stats = <<>>
        /\ pc = "done" =>
              /\ result = FALSE
              /\ Last(log).event = "missing" => Last(log).table \notin catalog
              /\ Last(log).event \in {"missing", "rejected"}

C8_Witness ==
    /\ pc = "done"
    /\ "dim_products" \notin catalog
    /\ Last(log) = Logged("dim_products", "missing")
    /\ history # <<>>
    /\ db.dim_vendor # <<>>

\* C9 (as claimed): when the storage rejects the write of a gold table during a run,
\* load_gold_layer does not report success and the table is named in the log.
C9_RejectionSurfaces ==
    (pc = "done" /\ \E i \in DOMAIN log : log[i].event = "rejected" /\ log[i].table \in GoldTables)
        => result # TRUE

PrimaryKeysIn(t, rows) == {PrimaryKey(t, rows[i]) : i \in DOMAIN rows}

SourcesResolved ==
    \/ pc \in Range(StepOrder) \ {"source"}
    \/ pc = "done" /\ result = TRUE

\* C13: once load_dim_cvss_source has returned, every source name of the incoming
\* cvss_v2 / v3 / v4 rows is a row of dim_cvss_source and a key of the mapping, so the
\* fact loaders map every incoming row to a source_id and drop none as unmapped.
C13_SourcesAutoInserted ==
    SourcesResolved =>
        \A t \in FactTables :
            /\ \A i \in DOMAIN gold_tables[t] :
                  LET name == _norm_text(gold_tables[t][i].cvss_source, SourceMaxLen)
                  IN  /\ name \in DOMAIN source_mapping
                      /\ \E j \in DOMAIN db.dim_cvss_source :
                            /\ db.dim_cvss_source[j].source_name = name
                            /\ db.dim_cvss_source[j].source_id = source_mapping[name]
            /\ Len(MapSources(gold_tables[t], source_mapping)) = Len(gold_tables[t])

C13_Witness ==
    /\ pc = "done"
    /\ result = TRUE
    /\ history # <<>>
    /\ "inserted" \in {log[i].event : i \in {j \in DOMAIN log : log[j].table = "dim_cvss_source"}}
    /\ "inserted" \in {log[i].event : i \in {j \in DOMAIN log : log[j].table = "cvss_v2"}}
    /\ \E i \in DOMAIN db.cvss_v2 : db.cvss_v2[i].source_id = source_mapping[unknown]

\* C14: bridge_cve_products never holds two rows with the same (cve_id, product_id): a
\* pair listed twice in a batch, or persisted by an earlier run, is left out of the
\* insert and the load returns normally.
C14_BridgePairsUnique ==
    /\ \A i, j \in DOMAIN db.bridge_cve_products :
          BridgeKey(db.bridge_cve_products[i]) = BridgeKey(db.bridge_cve_products[j]) => i = j
    /\ (pc \in {"finish", "done"} /\ "bridge" \in DOMAIN stats
            /\ Logged("bridge_cve_products", "rejected") \notin Range(log)) =>
          {BridgeKey(gold_tables.bridge_cve_products[i]) : i \in DOMAIN gold_tables.bridge_cve_products}
              \subseteq {BridgeKey(db.bridge_cve_products[i]) : i \in DOMAIN db.bridge_cve_products}

\* a second run whose batch repeats a pair within the batch (RowB lists Widget of Acme
\* twice) and repeats pairs persisted by the first run, next to new ones
C14_Witness ==
    /\ pc = "done"
    /\ result = TRUE
    /\ history # <<>>
    /\ Last(history).clean
    /\ \E j \in DOMAIN Last(history).batch : Last(history).batch[j] = RowB
    /\ Len(silver_df) = 2
    /\ \E j \in DOMAIN silver_df : silver_df[j] = RowB
    /\ Len(BridgeRows(Occurrences(silver_df), gold_tables.dim_vendor, gold_tables.dim_products))
          > Len(gold_tables.bridge_cve_products)
    /\ stats["bridge"] > 0
    /\ stats["bridge"] < Len(gold_tables.bridge_cve_products)

CveIds(rows) == {rows[i].cve_id : i \in DOMAIN rows}

\* C15: silver.cve_cleaned holds one row per cve_id, and every load_silver_layer call
\* keeps the rows that are there as they are and, unless the storage rejects the write,
\* adds exactly one row for each valid cve_id of the frame that was not there.
C15_SilverOneRowPerCve ==
    /\ [](Len(db.cve_cleaned) = Cardinality(CveIds(db.cve_cleaned)))
    /\ [][pc = "silver" =>
            /\ IsPrefix(db.cve_cleaned, db'.cve_cleaned)
            /\ pc' = "transform" =>
                  CveIds(db'.cve_cleaned) =
                      CveIds(db.cve_cleaned) \cup (CveIds(silver_df) \ {NoCveId})
            /\ pc' = "done" => db' = db]_vars

\* CVE 1 is loaded, then CVE 1 again together with CVE 2: two rows in all
C15_Witness ==
    /\ pc = "transform"
    /\ history # <<>>
    /\ Last(history).batch = <<RowA>>
    /\ silver_df = <<RowA, RowB>>
    /\ Len(db.cve_cleaned) = 2
    /\ CveIds(db.cve_cleaned) = {RowA.cve_id, RowB.cve_id}

\* the table a pipeline step writes, and its rows after that step when the step is
\* done with if_exists='append' and the storage accepts the write
AppendEffect ==
    CASE pc = "silver" ->
            [t |-> "cve_cleaned",
             rows |-> to_sql(db.cve_cleaned, SilverToInsert(silver_df, db.cve_cleaned))]
      [] pc = "source" ->
            [t |-> "dim_cvss_source",
             rows |-> to_sql(db.dim_cvss_source,
                             SerialSourceRows(db.dim_cvss_source,
                                              NewSources(gold_tables, db.dim_cvss_source)))]
      [] pc \in DimTables ->
            [t |-> pc, rows |-> to_sql(db[pc], DimensionToInsert(gold_tables[pc], pc, db[pc]))]
      [] pc \in FactTables ->
            [t |-> pc, rows |-> to_sql(db[pc], FactToInsert(gold_tables[pc], source_mapping, db[pc]))]
      [] pc = "bridge_cve_products" ->
            [t |-> pc, rows |-> to_sql(db[pc], BridgeToInsert(gold_tables[pc], db[pc]))]
      [] OTHER -> [t |-> None, rows |-> <<>>]

TableOfCall(c) == IF c.fn = "load_to_silver_table" THEN "cve_cleaned" ELSE "cve_details"

\* C17 (as claimed): every load call that returns counts returns inserted equal to the
\* number of rows it added to the table and skipped equal to the number of incoming
\* rows it did not add because their key was persisted.
C17_CountsAreExact ==
    [][(~ret'.raised) =>
          LET t == TableOfCall(call')
          IN  /\ ret'.inserted = Len(db'[t]) - Len(db[t])
              /\ ret'.skipped = Cardinality({i \in DOMAIN call'.df :
                                                call'.df[i].cve_id \in CveIdsOf(db[t])})]_vars

\* the version tags that name a fact table
KnownVersions == {"CVSS 2.0", "CVSS 3.0", "CVSS 3.1", "CVSS 4.0"}

FactTableOf(version) ==
    CASE version = "CVSS 2.0" -> "cvss_v2"
      [] version \in {"CVSS 3.0", "CVSS 3.1"} -> "cvss_v3"
      [] version = "CVSS 4.0" -> "cvss_v4"

\* the entries of the batch that have a known version tag and a vector that is not blank
UsableEntries(df, t) ==
    {<<i, j>> \in UNION {{i} \X DOMAIN df[i].cvss_scores : i \in DOMAIN df} :
        LET e == df[i].cvss_scores[j]
        IN  /\ e.version \in KnownVersions
            /\ FactTableOf(e.version) = t
            /\ Strip(ReplaceNbsp(e.vector)) # <<>>}

\* C18: the fact frames of a batch hold one row per entry with a known version tag and
\* a vector that is not blank, and none for any other entry; no row of a fact frame
\* and no persisted fact row has an empty vector.
C18_NoFactWithoutVector ==
    /\ \A t \in FactTables :
          /\ \A i \in DOMAIN db[t] : db[t][i].cvss_vector # <<>>
          /\ \A i \in DOMAIN gold_tables[t] : gold_tables[t][i].cvss_vector # <<>>
    /\ (pc \in Range(StepOrder) \cup {"verify"}) =>
          \A t \in FactTables : Len(gold_tables[t]) = Cardinality(UsableEntries(silver_df, t))

\* RowC: a CVSS 3.1 entry with a blank vector, an entry tagged CVSS 9.9, a good 4.0 entry
C18_Witness ==
    /\ pc = "done"
    /\ result = TRUE
    /\ silver_df = <<RowC>>
    /\ gold_tables.cvss_v3 = <<>>
    /\ \E i \in DOMAIN db.cvss_v4 : db.cvss_v4[i].cve_id = RowC.cve_id
    /\ \A i \in DOMAIN db.cvss_v3 : db.cvss_v3[i].cve_id # RowC.cve_id

\* the first run, on the example record alone (RowA: one CVSS 3.1 entry of one source,
\* one product Widget of vendor Acme), has gone through every load
ExampleLoaded ==
    /\ pc = "done"
    /\ result = TRUE
    /\ history = <<>>
    /\ silver_df = <<RowA>>
    /\ \A i \in DOMAIN log : log[i].event # "rejected"

\* C19: after one pass over an empty warehouse with the example record, dim_cve,
\* cvss_v3, dim_vendor, dim_products and bridge_cve_products have one row each, cvss_v2
\* and cvss_v4 none, the vendor row has total_cves = 1 and the bridge row links the CVE
\* to the product_id of Widget.
C19_ExampleRecord ==
    ExampleLoaded =>
        /\ Len(db.dim_cve) = 1
        /\ db.dim_cve[1].cve_id = RowA.cve_id
        /\ Len(db.cvss_v3) = 1
        /\ db.cvss_v3[1].cve_id = RowA.cve_id
        /\ db.cvss_v3[1].cvss_version = "CVSS 3.1"
        /\ Len(db.dim_vendor) = 1
        /\ db.dim_vendor[1].vendor_name = AcmeCorp
        /\ db.dim_vendor[1].total_cves = 1
        /\ Len(db.dim_products) = 1
        /\ db.dim_products[1].product_name = Widget
        /\ db.dim_products[1].vendor_id = db.dim_vendor[1].vendor_id
        /\ Len(db.bridge_cve_products) = 1
        /\ db.bridge_cve_products[1] =
              [cve_id |-> RowA.cve_id, product_id |-> db.dim_products[1].product_id]
        /\ db.cvss_v2 = <<>>
        /\ db.cvss_v4 = <<>>

C19_Witness ==
    /\ ExampleLoaded
    /\ Len(db.cve_cleaned) = 1
    /\ stats["bridge"] = 1
    /\ stats["cvss_v3"] = 1

\* the value-label table of each version, as <<version, metric code, value code, label>>
ValueLabels ==
    {<<"v2", "Au", "N", "None">>, <<"v2", "Au", "S", "Single">>, <<"v2", "Au", "M", "Multiple">>,
     <<"v3", "AV", "N", "Network">>, <<"v3", "AV", "A", "Adjacent">>,
     <<"v3", "AV", "L", "Local">>, <<"v3", "AV", "P", "Physical">>,
     <<"v3", "AC", "L", "Low">>, <<"v3", "AC", "H", "High">>,
     <<"v3", "PR", "N", "None">>, <<"v3", "PR", "L", "Low">>, <<"v3", "PR", "H", "High">>,
     <<"v3", "UI", "N", "None">>, <<"v3", "UI", "R", "Required">>,
     <<"v3", "S", "U", "Unchanged">>, <<"v3", "S", "C", "Changed">>,
     <<"v3", "C", "N", "None">>, <<"v3", "C", "L", "Low">>, <<"v3", "C", "H", "High">>,
     <<"v3", "I", "N", "None">>, <<"v3", "I", "L", "Low">>, <<"v3", "I", "H", "High">>,
     <<"v3", "A", "N", "None">>, <<"v3", "A", "L", "Low">>, <<"v3", "A", "H", "High">>}

\* the pairs of a vector, without its "CVSS:<version>" prefix
PairsOf(vector) ==
    LET pairs == split(Strip(vector), "/")
    IN  SelectSeq(pairs, LAMBDA p : ":" \notin Range(p) \/ split_pair(p).key # <<"CVSS">>)

\* every pair of the vector is a metric code and a value code of the version's tables,
\* and no metric is given twice
InTables(vector, version) ==
    LET pairs == PairsOf(vector)
    IN  /\ pairs # <<>>
        /\ \A i \in DOMAIN pairs :
              /\ ":" \in Range(pairs[i])
              /\ \E l \in ValueLabels :
                    /\ l[1] = version
                    /\ split_pair(pairs[i]).key = <<l[2]>>
                    /\ split_pair(pairs[i]).value = <<l[3]>>
        /\ \A i, j \in DOMAIN pairs :
              split_pair(pairs[i]).key = split_pair(pairs[j]).key => i = j

\* C20 (as claimed): for every vector whose metric codes and value codes belong to the
\* version's tables, parse_vector returns for each metric the human-readable label of its
\* value (v3 AV:N gives "Network", C:H gives "High", v2 Au:S gives "Single"), and the fact
\* record built for the example vector CVSS:3.1/AV:N/AC:L/PR:N/UI:N/S:U/C:H/I:H/A:H has
\* cvss_v3_base_av = "Network" and cvss_v3_base_c = "High".
C20_LabelsDecoded ==
    [][/\ (call'.fn = "parse_vector" /\ InTables(call'.vector, call'.version))
            => \A l \in ValueLabels :
                  (/\ l[1] = call'.version
                   /\ \E i \in DOMAIN PairsOf(call'.vector) :
                         /\ split_pair(PairsOf(call'.vector)[i]).key = <<l[2]>>
                         /\ split_pair(PairsOf(call'.vector)[i]).value = <<l[3]>>)
                  => metrics_get(ret'.value, Column(l[1], <<l[2]>>)) = l[4]
       /\ (/\ call'.fn = "create_cvss_facts"
           /\ call'.vector = ExampleVector
           /\ call'.version = "CVSS 3.1")
            => /\ Len(ret'.value) = 1
               /\ ret'.value[1].columns["cvss_v3_base_av"] = "Network"
               /\ ret'.value[1].columns["cvss_v3_base_c"] = "High"]_vars

(***************************************************************************)
(* Properties of the loads statement by statement (StepSpec)               *)
(***************************************************************************)
StepNames(trace) == [i \in DOMAIN trace |-> trace[i].step]

\* the rows a run is about to send, as rows of the table
FrameOf(run) ==
    IF run.at = "source" THEN [i \in DOMAIN run.df_to_insert |-> [source_name |-> run.df_to_insert[i]]]
    ELSE run.df_to_insert

\* the key the loader of a step compares on
StepKey(step, r) ==
    CASE step = "source" -> r.source_name
      [] step \in DimTables -> PrimaryKey(step, r)
      [] step \in FactTables -> FactKey(r)
      [] step = "bridge_cve_products" -> BridgeKey(r)

StepKeys(step, rows) == {StepKey(step, rows[i]) : i \in DOMAIN rows}

RowsWithKey(step, rows, k) == Cardinality({i \in DOMAIN rows : StepKey(step, rows[i]) = k})

\* run r has just had its INSERT accepted
Inserts(r) ==
    /\ Loading(runs[r])
    /\ runs[r].phase = "insert"
    /\ Len(runs'[r].trace) = Len(runs[r].trace) + 1
    /\ Last(runs'[r].trace) = Did(runs[r].at, "INSERTED")

RacingOn(step) ==
    \A r \in RunIds : runs[r].at = step /\ runs[r].phase \in {"filter", "insert"}

\* C12: two runs on the same database are not kept apart.  When both have read the keys
\* of a dimension before either inserts, a key new to both is in both filtered frames;
\* and a run whose filtered frame holds a key the other run has persisted since the read
\* sends it all the same: if the storage accepts the statement the table has a second
\* row with that key.
C12_ConcurrentRunsRace ==
    /\ [](\A step \in {"source"} \cup DimTables :
            RacingOn(step) =>
                \A r \in RunIds :
                    runs[r].phase = "insert" =>
                        \A k \in StepKeys(step, FrameOf([runs[r] EXCEPT
                                                           !.df_to_insert = Prepared(runs[r], step)])) :
                            k \notin StepKeys(step, runs[r].seen) =>
                                k \in StepKeys(step, FrameOf(runs[r])))
    /\ [][\A r \in RunIds :
            (Inserts(r) /\ runs[r].at \in {"source"} \cup DimTables) =>
                \A k \in StepKeys(runs[r].at, FrameOf(runs[r])) :
                    k \in StepKeys(runs[r].at, db[TableOf(runs[r].at)]) =>
                        RowsWithKey(runs[r].at, db'[TableOf(runs[r].at)], k) >= 2]_vars

C12_Witness ==
    /\ RowsWithKey("dim_vendor", db.dim_vendor, 1) = 2
    /\ \A r \in RunIds : runs[r].at = "done" /\ runs[r].result = TRUE
    /\ faults = 0


(***************************************************************************)
(* Properties of the vector parser (ParserSpec)                            *)
(***************************************************************************)
\* the columns of the metric codes each version's tables know
KnownColumns(version) ==
    CASE version = "v2" -> {"cvss_v2_" \o LowerCode(k) : k \in CVSS_V2_METRICS}
      [] version = "v3" ->
             {"cvss_v3_base_" \o LowerCode(k) : k \in CVSS_V3_BASE_METRICS}
                \cup {"cvss_v3_temp_" \o LowerCode(k) : k \in CVSS_V3_TEMPORAL_METRICS}
                \cup {"cvss_v3_env_" \o LowerCode(k) : k \in CVSS_V3_ENVIRONMENTAL_METRICS}
      [] version = "v4" -> {"cvss_v4_" \o LowerCode(k) : k \in CVSS_V4_BASE_METRICS}

SameDict(a, b) == DOMAIN a = DOMAIN b /\ \A c \in DOMAIN a : a[c] = b[c]

\* the leading segments CVSS:<major>.<minor>
Prefixes == {<<"CVSS", ":", "3.1">>, <<"CVSS", ":", "4.0">>}

\* C21 (as claimed): for v2, v3 and v4, parse_vector raises nothing, returns entries
\* only for the metric codes of the version's tables, and returns for a vector with a
\* leading CVSS:<major>.<minor> segment what it returns for the vector without it.
C21_UnknownKeysIgnored ==
    [][call'.fn = "parse_vector"
         => /\ ~ret'.raised
            /\ DOMAIN ret'.value \subseteq KnownColumns(call'.version)
            /\ \A p \in Prefixes, v \in Vectors :
                  call'.vector = p \o <<"/">> \o v
                     => SameDict(ret'.value, parse_vector(v, call'.version))]_vars

\* C22 (as claimed): parse_vector never raises, and for a missing or empty vector and
\* for any vector in which no colon-delimited pair is found it returns the empty
\* mapping, whatever the version key.
C22_NoPairsGivesEmpty ==
    [][call'.fn = "parse_vector"
         => /\ ~ret'.raised
            /\ ":" \notin Range(call'.vector) => DOMAIN ret'.value = {}]_vars

(***************************************************************************)
(* Properties of the run from the search to Gold (PipelineSpec)            *)
(***************************************************************************)
\* the run that has just returned met no failure: every object of the catalog was
\* there and no write was rejected
RunWithoutFailure ==
    /\ catalog = Range(GoldObjects)
    /\ \A i \in DOMAIN log : log[i].event \notin {"rejected", "missing"}

\* the preceding run committed the CVEs it scraped to Bronze and then failed
FailedAfterBronze(prev) ==
    /\ prev.success = FALSE
    /\ prev.scraped_cve_data # <<>>
    /\ CveIdsOf(prev.scraped_cve_data) \subseteq CveIdsOf(db.cve_details)

\* C23 (as claimed): when a run committed CVEs to Bronze and failed before they reached
\* Gold, a re-run on the same search results that meets no failure ends with these CVEs
\* (those the cleaning keeps) in silver.cve_cleaned and in gold.dim_cve.
C23_Resumable ==
    (/\ pc = "done"
     /\ history # <<>>
     /\ call.fn = "scrape_and_load_with_pipeline"
     /\ Last(history).cve_links = call.cve_links
     /\ FailedAfterBronze(Last(history))
     /\ RunWithoutFailure)
    => \A id \in CveIdsOf(clean_silver_data(Last(history).scraped_cve_data)) :
          /\ id \in CveIdsOf(db.cve_cleaned)
          /\ id \in CveIdsOf(db.dim_cve)

\* positions of the run inside load_gold_layer
GoldSteps == {"verify"} \cup Range(StepOrder)

\* the log entries written by load_gold_layer
IsGoldEntry(e) == e.table \in Range(GoldObjects) \cup {"gold"}

\* the log shows that load_bronze_layer returned and then load_silver_layer returned True
BronzeThenSilver(lg) ==
    \E k, j \in DOMAIN lg :
       /\ k < j
       /\ lg[k] = Logged("cve_details", "inserted")
       /\ lg[j].table = "cve_cleaned"
       /\ lg[j].event \in {"inserted", "skipped"}
       /\ \A i \in DOMAIN lg : IsGoldEntry(lg[i]) => j < i

\* nothing new to scrape: every listed CVE is in raw.cve_details and the run did nothing
NothingNew ==
    /\ call.cve_links # <<>>
    /\ CveIdsOf(call.cve_links) \subseteq CveIdsOf(db.cve_details)
    /\ call.scraped_cve_data = <<>>
    /\ log = <<>>

\* load_gold_layer went through its last load and returned True
GoldReturnedTrue == log # <<>> /\ Last(log).table = "bridge_cve_products"

\* C24: a run of scrape_and_load_with_pipeline is inside load_gold_layer only after
\* load_bronze_layer returned and load_silver_layer then returned True, and it ends with
\* success = True only if there was nothing new to scrape or load_gold_layer returned True.
C24_LayerOrder ==
    /\ (pc \in GoldSteps \/ \E i \in DOMAIN log : IsGoldEntry(log[i])) => BronzeThenSilver(log)
    /\ (pc = "done" /\ result = TRUE) => (NothingNew \/ GoldReturnedTrue)

C24_Witness ==
    /\ pc = "done"
    /\ result = TRUE
    /\ GoldReturnedTrue
    /\ BronzeThenSilver(log)
    /\ db.dim_cve # <<>>

\* C29 (as claimed): whenever no run is under way, every cve_id of cvss_v2, cvss_v3,
\* cvss_v4 and bridge_cve_products is in gold.dim_cve, every cve_id of gold.dim_cve is in
\* silver.cve_cleaned, and every cve_id of silver.cve_cleaned is in raw.cve_details.
C29_LayersNested ==
    pc \in {"idle", "done"}
    => /\ \A t \in FactTables \cup {"bridge_cve_products"} :
             CveIdsOf(db[t]) \subseteq CveIdsOf(db.dim_cve)
       /\ CveIdsOf(db.dim_cve) \subseteq CveIdsOf(db.cve_cleaned)
       /\ CveIdsOf(db.cve_cleaned) \subseteq CveIdsOf(db.cve_details)

(***************************************************************************)
(* Properties of the batch scraper (BatchSpec)                             *)
(***************************************************************************)
\* C25: in scrape_and_load_batch every list handed to load_bronze_layer has between
\* one and batch_size records; two lists handed over that share a record are the same
\* list (the one the interrupt handler hands over again); and when the function
\* returns, after the last CVE or after a KeyboardInterrupt, every record scraped and
\* counted is in a list that was handed over.
C25_EveryRecordHandedOver ==
    call.fn = "scrape_and_load_batch"
    => /\ \A i \in DOMAIN runs.handed :
             Len(runs.handed[i]) \in 1..call.batch_size
       /\ \A i, j \in DOMAIN runs.handed :
             Range(runs.handed[i]) \cap Range(runs.handed[j]) # {}
                => runs.handed[i] = runs.handed[j]
       /\ runs.at = "returned"
             => Range(runs.scraped) \subseteq UNION {Range(runs.handed[i]) : i \in DOMAIN runs.handed}

\* a call that handed over a full batch, was interrupted with a partial batch pending,
\* and returned
C25_Witness ==
    /\ call.fn = "scrape_and_load_batch"
    /\ runs.at = "returned"
    /\ Len(runs.handed) = 2
    /\ Len(runs.handed[1]) = call.batch_size
    /\ Len(runs.handed[2]) < call.batch_size
    /\ runs.handed[2] = runs.batch
    /\ Len(runs.scraped) = 3

(***************************************************************************)
(* Properties of the vendor / product aggregates (TransformSpec)           *)
(***************************************************************************)
\* the usable affected_products entries of a row, as <<vendor key, product key>>
KeysOfRow(row) ==
    {<<Lower(_norm_text(row.affected_products[j].vendor, 0)),
       Lower(_norm_text(row.affected_products[j].product, 0))>> :
        j \in {k \in DOMAIN row.affected_products :
                  /\ _norm_text(row.affected_products[k].vendor, 0) # <<>>
                  /\ _norm_text(row.affected_products[k].product, 0) # <<>>}}

\* the rows of the frame that reference a vendor, a product
RowsOfVendor(df, vkey) == {i \in DOMAIN df : \E k \in KeysOfRow(df[i]) : k[1] = vkey}

RowsOfProduct(df, vkey, pkey) == {i \in DOMAIN df : <<vkey, pkey>> \in KeysOfRow(df[i])}

\* the published dates, not missing, of a set of rows
DatesOf(df, rows) == {df[i].published_date : i \in rows} \ {NaT}

MinDate(S) == CHOOSE d \in S : \A e \in S : d <= e

MaxDate(S) == CHOOSE d \in S : \A e \in S : e <= d

\* the dates of a dimension row are the bounds of the dates of the rows referencing it
DatesAreBounds(r, dates) ==
    dates # {} => r.first_cve_date = MinDate(dates) /\ r.last_cve_date = MaxDate(dates)

\* the lower-cased name of the vendor a product row belongs to
VendorKeyOf(tables, p) ==
    Lower(tables.dim_vendor[CHOOSE i \in DOMAIN tables.dim_vendor :
                               tables.dim_vendor[i].vendor_id = p.vendor_id].vendor_name)

\* C26 (as claimed): in every vendor row and every product row built from one frame,
\* first_cve_date is the minimum and last_cve_date the maximum of the published dates,
\* not missing, of the CVEs of the frame that reference it, whatever the order of the
\* rows and whichever row lacks its date.
C26_DatesAreMinMax ==
    [][call'.fn = "create_vendors_products_and_bridge"
         => LET df == call'.df
                tables == ret'.value
            IN  /\ \A i \in DOMAIN tables.dim_vendor :
                      DatesAreBounds(tables.dim_vendor[i],
                          DatesOf(df, RowsOfVendor(df, Lower(tables.dim_vendor[i].vendor_name))))
                /\ \A i \in DOMAIN tables.dim_products :
                      DatesAreBounds(tables.dim_products[i],
                          DatesOf(df, RowsOfProduct(df, VendorKeyOf(tables, tables.dim_products[i]),
                                                    Lower(tables.dim_products[i].product_name))))]_vars

\* the CVEs of a set of rows
CvesOf(df, rows) == {df[i].cve_id : i \in rows}

\* C30 (as claimed): in every vendor row and every product row built from one frame,
\* total_cves is the number of distinct CVEs of the frame that reference it, and a
\* product's total_cves is the number of bridge rows built for that product.
C30_TotalCvesDistinct ==
    [][call'.fn = "create_vendors_products_and_bridge"
         => LET df == call'.df
                tables == ret'.value
            IN  /\ \A i \in DOMAIN tables.dim_vendor :
                      tables.dim_vendor[i].total_cves =
                         Cardinality(CvesOf(df, RowsOfVendor(df,
                                                 Lower(tables.dim_vendor[i].vendor_name))))
                /\ \A i \in DOMAIN tables.dim_products :
                      LET p == tables.dim_products[i]
                      IN  /\ p.total_cves =
                                Cardinality(CvesOf(df, RowsOfProduct(df, VendorKeyOf(tables, p),
                                                                     Lower(p.product_name))))
                          /\ p.total_cves =
                                Cardinality({j \in DOMAIN tables.bridge_cve_products :
                                    tables.bridge_cve_products[j].product_id = p.product_id})]_vars

\* the entries of a list that give a fact record: recognised version tag, vector not blank
UsableScores(scores) ==
    SelectSeq(scores, LAMBDA e : get_version_info(e.version)[1] # None
                                 /\ _norm_text(e.vector, 0) # <<>>)

\* C27: an entry with a recognised version tag and a vector, not blank, in which no
\* metric pair is found raises nothing and gives exactly one fact record, whose decoded
\* columns are all missing; the other entries of the row give their records as usual, so
\* the records are those of the usable entries, one each, in order.
C27_NoPairsGivesEmptyRow ==
    [][call'.fn = "create_cvss_facts_of_row"
         => LET usable == UsableScores(call'.scores)
                recs == ret'.value
            IN  /\ ~ret'.raised
                /\ Len(recs) = Len(usable)
                /\ \A i \in DOMAIN usable :
                      /\ recs[i].vkey = get_version_info(usable[i].version)[1]
                      /\ recs[i].cvss_vector = _norm_text(usable[i].vector, 0)
                      /\ ":" \notin Range(usable[i].vector)
                            => \A c \in DOMAIN recs[i].columns : recs[i].columns[c] = None
                      /\ usable[i].vector = <<"AV", ":", "N">>
                            => \E c \in DOMAIN recs[i].columns : recs[i].columns[c] = "N"]_vars

\* a row whose first entry has a vector without pairs and whose second has pairs
C27_Witness ==
    /\ call.fn = "create_cvss_facts_of_row"
    /\ Len(call.scores) = 2
    /\ call.scores[1].version = "CVSS 3.1"
    /\ call.scores[1].vector = <<"XX">>
    /\ call.scores[2].vector = <<"AV", ":", "N">>
    /\ Len(ret.value) = 2
    /\ \A c \in DOMAIN ret.value[1].columns : ret.value[1].columns[c] = None
    /\ ret.value[2].columns["cvss_v3_base_av"] = "N"

(***************************************************************************)
(* Properties of the persisted product bridge                              *)
(***************************************************************************)
\* the (vendor key, product key) pairs the batches list as affected by a CVE
AffectedPairs(batches, cve_id) ==
    UNION {{<<Lower(_norm_text(batches[b][i].affected_products[j].vendor, 0)),
              Lower(_norm_text(batches[b][i].affected_products[j].product, 0))>> :
                j \in DOMAIN batches[b][i].affected_products}
              : <<b, i>> \in {x \in (DOMAIN batches) \X (1..2) :
                                 /\ x[2] \in DOMAIN batches[x[1]]
                                 /\ batches[x[1]][x[2]].cve_id = cve_id}}

AllAffectedPairs(batches) ==
    UNION {AffectedPairs(batches, id) :
              id \in UNION {{batches[b][i].cve_id : i \in DOMAIN batches[b]} :
                               b \in DOMAIN batches}}

\* C28 (as claimed): after any sequence of runs in which the storage rejects nothing,
\* every persisted bridge row names a persisted product that, with the vendor its
\* vendor_id resolves to, is a pair listed as affected by the row's CVE; and every
\* persisted product's vendor_id resolves to a persisted vendor that a batch lists
\* with that product.
C28_BridgeRefersToOwnProduct ==
    (pc = "done" /\ faults = 0) =>
    /\ \A i \in DOMAIN db.bridge_cve_products :
          LET b == db.bridge_cve_products[i]
              products == {j \in DOMAIN db.dim_products :
                              db.dim_products[j].product_id = b.product_id}
          IN  /\ products # {}
              /\ \A j \in products :
                    /\ ProductKeys(db.dim_products, db.dim_vendor, db.dim_products[j]) # {}
                    /\ ProductKeys(db.dim_products, db.dim_vendor, db.dim_products[j])
                          \subseteq AffectedPairs(AllBatches, b.cve_id)
    /\ \A j \in DOMAIN db.dim_products :
          /\ ProductKeys(db.dim_products, db.dim_vendor, db.dim_products[j]) # {}
          /\ ProductKeys(db.dim_products, db.dim_vendor, db.dim_products[j])
                \subseteq AllAffectedPairs(AllBatches)
============================================================================
